---- MODULE Spec2Model ----
(***************************************************************************)
(* Model of the learn-bank-app ledger, its credits and its overdue-payment *)
(* sweep.                                                                  *)
(*                                                                         *)
(* Money in the store is DECIMAL(15,2); the model counts it in cents.  The *)
(* program computes in float64: a value read from the store is the float64 *)
(* nearest to the decimal, a value written is the shortest decimal that    *)
(* reads back as the float64, which the column rounds to two places, halves *)
(* away from zero.  Time is counted in months.                             *)
(*                                                                         *)
(* The store is PostgreSQL at READ COMMITTED: a plain SELECT reads the     *)
(* last committed value and never waits; an UPDATE or a SELECT FOR UPDATE  *)
(* waits while another transaction holds the row lock; the writes of a     *)
(* transaction become visible together at its commit.  An action is one    *)
(* round trip to the store with the code that follows it.                  *)
(***************************************************************************)
EXTENDS Integers, Sequences, FiniteSets, TLC

VARIABLES
    accStatus,  \* accounts.status per account id, "none" when there is no row
    accOwner,   \* accounts.user_id per account id, 0 when there is no row
    balance,    \* accounts.balance per account id (committed value), in cents
    rowLock,    \* accounts row lock: the request whose transaction holds it
    txlog,      \* transactions table, in insertion order
    credits,    \* credits table, indexed by id
    entries,    \* payment_schedules table, indexed by id
    now,        \* NOW() of the store, in months
    req,        \* the request handlers in flight (accountService, cardService, creditService)
    sw,         \* the sweeps in flight (goroutines running ProcessOverduePayments)
    sched,      \* SchedulerServiceImpl: ticker, stopChan and its goroutines
    hist        \* bookkeeping: what the properties and the bounds count

vars == <<accStatus, accOwner, balance, rowLock, txlog, credits, entries, now, req, sw,
          sched, hist>>

-----------------------------------------------------------------------------
(* Bounds *)

MaxAmount == 2
MaxOps == 2
MaxSweeps == 2
MaxTime == 4
MaxTicks == 2
\* the amounts, in cents, whose float64 is tabulated; others are computed on demand
MaxCents == 400

(* Program constants *)

PenaltyRate == 10
FallbackRate == 16
BankMargin == 5
CbrBankMargin == 5
MaxTermMonths == 360

AccountIds == {1, 2, 3, 4}
Users == {1, 2}
Procs == {"r1", "r2"}
Sweepers == {"s1", "s2"}
Amounts == 0..MaxAmount
Free == "free"

-----------------------------------------------------------------------------
(* Natural numbers of any size: the limbs in base 2^14, lowest first, no zero *)
(* on top.  They carry the exact products and quotients float64 rounds.  The  *)
(* operations look ahead for their carries instead of recursing over the      *)
(* limbs, and each takes the value of its operands once, as the element of a  *)
(* one-element set, before it works on them.                                  *)

Big == [bits |-> 14, base |-> 16384]
Base == Big.base
LimbBits == Big.bits

\* the element of a one-element set
Only(S) == CHOOSE r \in S : TRUE

Limb(x, i) == IF i >= 1 /\ i <= Len(x) THEN x[i] ELSE 0

\* the largest element of a non-empty set of integers
Max(S0) == Only({CHOOSE m \in S : \A k \in S : k <= m : S \in {S0}})

BigNorm(x0) ==
    Only({Only({IF nz = {} THEN <<>> ELSE SubSeq(x, 1, Max(nz)) :
                   nz \in {{i \in 1..Len(x) : x[i] # 0}}}) : x \in {x0}})

\* for n < 2^31
BigFromNat(n0) == Only({BigNorm([i \in 1..3 |-> (n \div Base^(i - 1)) % Base]) : n \in {n0}})

\* for x < 2^31
BigToNat(x0) ==
    Only({Limb(x, 1) + Base * Limb(x, 2) + Base * Base * Limb(x, 3) : x \in {x0}})

\* the order of x and y: -1, 0, 1
BigCmpOf(x, y) ==
    Only({IF diff = {} THEN 0
          ELSE IF Limb(x, Max(diff)) > Limb(y, Max(diff)) THEN 1 ELSE -1 :
             diff \in {{i \in 1..(IF Len(x) > Len(y) THEN Len(x) ELSE Len(y)) :
                           Limb(x, i) # Limb(y, i)}}})

BigCmp(x0, y0) == Only({BigCmpOf(x, y) : x \in {x0}, y \in {y0}})

\* a carry enters limb i when a limb below it overflows and every limb between
\* them is full
BigAddOf(x, y) ==
    LET s(i) == Limb(x, i) + Limb(y, i)
        carry(i) == IF \E j \in 1..(i - 1) :
                          s(j) >= Base /\ \A k \in (j + 1)..(i - 1) : s(k) = Base - 1
                    THEN 1 ELSE 0
    IN  BigNorm([i \in 1..(1 + (IF Len(x) > Len(y) THEN Len(x) ELSE Len(y))) |->
                    (s(i) + carry(i)) % Base])

BigAdd(x0, y0) == Only({BigAddOf(x, y) : x \in {x0}, y \in {y0}})

\* x - y for x >= y
BigSubOf(x, y) ==
    LET d(i) == Limb(x, i) - Limb(y, i)
        borrow(i) == IF \E j \in 1..(i - 1) :
                           d(j) < 0 /\ \A k \in (j + 1)..(i - 1) : d(k) = 0
                     THEN 1 ELSE 0
    IN  BigNorm([i \in 1..Len(x) |-> (d(i) - borrow(i) + Base) % Base])

BigSub(x0, y0) == Only({BigSubOf(x, y) : x \in {x0}, y \in {y0}})

\* x * k for a k in 0..Base
BigMulSmall(x0, k0) ==
    Only({BigAdd([i \in 1..Len(x) |-> (x[i] * k) % Base],
                 <<0>> \o [i \in 1..Len(x) |-> (x[i] * k) \div Base]) :
             x \in {x0}, k \in {k0}})

\* x * y for an x of at most four limbs (a mantissa): the columns of the long
\* multiplication, then their three limbs added up
BigMulOf(x, y) ==
    Only({BigAdd(BigAdd([k \in DOMAIN cols |-> cols[k] % Base],
                        <<0>> \o [k \in DOMAIN cols |-> (cols[k] \div Base) % Base]),
                 <<0, 0>> \o [k \in DOMAIN cols |-> cols[k] \div (Base * Base)]) :
             cols \in {[k \in 1..(Len(x) + Len(y)) |->
                           Limb(x, 1) * Limb(y, k) + Limb(x, 2) * Limb(y, k - 1)
                             + Limb(x, 3) * Limb(y, k - 2) + Limb(x, 4) * Limb(y, k - 3)]}})

BigMul(x0, y0) == Only({BigMulOf(x, y) : x \in {x0}, y \in {y0}})

\* x * 2^n
BigShl(x0, n0) ==
    Only({IF x = <<>> THEN <<>>
          ELSE [i \in 1..(n \div LimbBits) |-> 0] \o BigMulSmall(x, 2^(n % LimbBits)) :
             x \in {x0}, n \in {n0}})

\* floor(x / 2^n)
BigShrOf(x, drop, p) ==
    BigNorm([i \in 1..(Len(x) - drop) |->
                (Limb(x, i + drop) \div p) + (Limb(x, i + drop + 1) % p) * (Base \div p)])

BigShr(x0, n0) ==
    Only({BigShrOf(x, n \div LimbBits, 2^(n % LimbBits)) : x \in {x0}, n \in {n0}})

\* the bits of a limb
SmallBitLen(n) == IF n = 0 THEN 0 ELSE CHOOSE b \in 1..LimbBits : 2^(b - 1) <= n /\ n < 2^b

BigBitLen(x0) ==
    Only({IF x = <<>> THEN 0 ELSE (Len(x) - 1) * LimbBits + SmallBitLen(x[Len(x)]) :
             x \in {x0}})

\* bit i (from 0) of x
BigBit(x, i) == (Limb(x, i \div LimbBits + 1) \div 2^(i % LimbBits)) % 2

\* the digit c with d * c <= r < d * (c + 1), for r < d * Base and a d whose top
\* limb is at least Base / 2: the quotient of the top limbs of r by the top limb
\* of d is that digit or at most two above it
QuotientLimb(d, r) ==
    Only({Max({c \in {hi - 2, hi - 1, hi} : c >= 0 /\ BigCmp(BigMulSmall(d, c), r) <= 0}) :
             hi \in {Only({IF est > Base - 1 THEN Base - 1 ELSE est :
                              est \in {(Limb(r, Len(d) + 1) * Base + Limb(r, Len(d)))
                                          \div d[Len(d)]}})}})

\* one step of the long division: the limb below what was divided so far
DivStepOf(above, limb, d) ==
    IF above[2] = <<>> /\ limb = 0 THEN <<<<0>> \o above[1], <<>>>>
    ELSE Only({Only({<<<<c>> \o above[1], BigSub(r2, BigMulSmall(d, c))>> :
                        c \in {QuotientLimb(d, r2)}}) :
                  r2 \in {BigNorm(<<limb>> \o above[2])}})

DivStep(above0, limb, d) == Only({DivStepOf(above, limb, d) : above \in {above0}})

\* <<quotient limbs, remainder>> of the limbs i..Len(n) of n by d
RECURSIVE BigDivModFrom(_, _, _)
BigDivModFrom(n, d, i) ==
    IF i > Len(n) THEN <<<<>>, <<>>>>
    ELSE DivStep(BigDivModFrom(n, d, i + 1), n[i], d)

\* <<quotient, remainder * 2^s>> of n by d > 0, both shifted by the s bits
\* that fill the top limb of d
BigDivModOf(n, d, s) ==
    Only({<<BigNorm(qr[1]), qr[2]>> :
             qr \in {Only({BigDivModFrom(ns, ds, 1) :
                              ns \in {BigShl(n, s)}, ds \in {BigShl(d, s)}})}})

BigDivMod(n0, d0) ==
    Only({BigDivModOf(n, d, LimbBits - SmallBitLen(d[Len(d)])) : n \in {n0}, d \in {d0}})

-----------------------------------------------------------------------------
(* float64, away from the subnormal and the overflow range: zero, or         *)
(* (-1)^neg * m * 2^e with 2^52 <= m < 2^53.  Every operation returns the    *)
(* float64 nearest to the exact result, ties to the even mantissa.           *)
(*                                                                           *)
(* An operation on float64 is used under its name, say F64Mul, and defined  *)
(* as F64MulOp; Apply, defined after the last of them, takes the name to    *)
(* the definition.  A use is then one application of Apply, whatever the    *)
(* operation uses in turn.                                                  *)

RECURSIVE Apply(_, _)

F64Zero == [neg |-> FALSE, m |-> <<>>, e |-> 0]

BigOne == <<1>>

\* <<quotient, remainder or not>> of n * 2^k by d
Scaled(n, d, k) ==
    IF d = BigOne
    THEN IF k >= 0 THEN <<BigShl(n, k), <<>>>>
         ELSE Only({<<q, IF BigCmp(BigShl(q, 0 - k), n) = 0 THEN <<>> ELSE BigOne>> :
                       q \in {BigShr(n, 0 - k)}})
    ELSE BigDivMod(IF k >= 0 THEN BigShl(n, k) ELSE n,
                   IF k >= 0 THEN d ELSE BigShl(d, 0 - k))

\* the float64 of the mantissa hi, one up when the bits below it say so, at
\* the exponent e; a mantissa that reaches 2^53 is halved
F64Pack(neg, hi, up, e) ==
    Only({IF BigBitLen(m1) = 54
          THEN [neg |-> neg, m |-> BigShr(m1, 1), e |-> e + 1]
          ELSE [neg |-> neg, m |-> m1, e |-> e] :
             m1 \in {IF up THEN BigAdd(hi, BigOne) ELSE hi}})

\* the quotient q of 55 or 56 bits cut to 53: the t bits below the 53rd and
\* the remainder decide, ties to even
F64Cut(neg, q, sticky, t, e) ==
    Only({F64Pack(neg, hi,
                  \/ q[1] % 2^t > 2^(t - 1)
                  \/ q[1] % 2^t = 2^(t - 1) /\ (sticky \/ hi[1] % 2 = 1),
                  e + t) :
             hi \in {BigShr(q, t)}})

\* the float64 nearest to (n / d) * 2^e, ties to even: the quotient is taken
\* to 55 or 56 bits
F64RoundOf(neg, n, d, k, e) ==
    Only({F64Cut(neg, qr[1], qr[2] # <<>>, BigBitLen(qr[1]) - 53, e - k) :
             qr \in {Scaled(n, d, k)}})

F64Round(neg, n, d, e) == Apply("F64Round", <<neg, n, d, e>>)

F64RoundOp(neg0, n0, d0, e0) ==
    Only({IF n = <<>> THEN F64Zero
          ELSE F64RoundOf(neg, n, d, 55 + BigBitLen(d) - BigBitLen(n), e) :
             neg \in {neg0}, n \in {n0}, d \in {d0}, e \in {e0}})

\* the float64 of the decimal n / d for integers n and d > 0: what a numeric
\* column scans to, and what a decimal literal of the program is
F64Of(n, d) == Apply("F64Of", <<n, d>>)

F64OfOp(n0, d0) ==
    Only({F64Round(n < 0, BigFromNat(IF n < 0 THEN 0 - n ELSE n), BigFromNat(d), 0) :
             n \in {n0}, d \in {d0}})

F64Neg(a0) == Only({IF a.m = <<>> THEN a ELSE [a EXCEPT !.neg = ~a.neg] : a \in {a0}})

F64Mul(a, b) == Apply("F64Mul", <<a, b>>)

F64MulOp(a0, b0) ==
    Only({IF a.m = <<>> \/ b.m = <<>> THEN F64Zero
          ELSE F64Round(a.neg # b.neg, BigMul(a.m, b.m), BigOne, a.e + b.e) :
             a \in {a0}, b \in {b0}})

\* for b # 0
F64Div(a, b) == Apply("F64Div", <<a, b>>)

F64DivOp(a0, b0) ==
    Only({IF a.m = <<>> \/ b.m = <<>> THEN F64Zero
          ELSE F64Round(a.neg # b.neg, a.m, b.m, a.e - b.e) :
             a \in {a0}, b \in {b0}})

\* the order of the magnitudes: -1, 0, 1
MagCmpOf(a, b) ==
    IF a.m = <<>> /\ b.m = <<>> THEN 0
    ELSE IF a.m = <<>> THEN -1
    ELSE IF b.m = <<>> THEN 1
    ELSE IF a.e > b.e THEN 1
    ELSE IF a.e < b.e THEN -1
    ELSE BigCmp(a.m, b.m)

MagCmp(a0, b0) == Only({MagCmpOf(a, b) : a \in {a0}, b \in {b0}})

\* the order of two float64: -1, 0, 1
F64CmpOf(a, b) ==
    IF a.neg /\ ~b.neg THEN (IF a.m = <<>> /\ b.m = <<>> THEN 0 ELSE -1)
    ELSE IF ~a.neg /\ b.neg THEN (IF a.m = <<>> /\ b.m = <<>> THEN 0 ELSE 1)
    ELSE IF a.neg THEN 0 - MagCmp(a, b)
    ELSE MagCmp(a, b)

F64Cmp(a0, b0) == Only({F64CmpOf(a, b) : a \in {a0}, b \in {b0}})

\* a + b for a, b # 0, their mantissas x and y brought to the exponent e
F64AddOf(a, b, x, y, e) ==
    Only({IF a.neg = b.neg THEN F64Round(a.neg, BigAdd(x, y), BigOne, e)
          ELSE IF c = 0 THEN F64Zero
          ELSE IF c > 0 THEN F64Round(a.neg, BigSub(x, y), BigOne, e)
          ELSE F64Round(b.neg, BigSub(y, x), BigOne, e) :
             c \in {BigCmp(x, y)}})

F64AddAt(a, b, e) ==
    Only({F64AddOf(a, b, x, y, e) : x \in {BigShl(a.m, a.e - e)}, y \in {BigShl(b.m, b.e - e)}})

F64Add(a, b) == Apply("F64Add", <<a, b>>)

F64AddOp(a0, b0) ==
    Only({IF a.m = <<>> THEN b
          ELSE IF b.m = <<>> THEN a
          ELSE F64AddAt(a, b, IF a.e < b.e THEN a.e ELSE b.e) :
             a \in {a0}, b \in {b0}})

F64Sub(a, b) == Apply("F64Sub", <<a, b>>)

F64SubOp(a0, b0) == Only({F64Add(a, F64Neg(b)) : a \in {a0}, b \in {b0}})

\* math.Round: the nearest integer, halves away from zero
F64RoundToInt(a0) ==
    Only({Only({IF a.neg THEN 0 - mag ELSE mag :
                   mag \in {IF a.m = <<>> THEN 0
                            ELSE IF a.e >= 0 THEN BigToNat(BigShl(a.m, a.e))
                            ELSE BigToNat(BigShr(a.m, 0 - a.e)) + BigBit(a.m, 0 - a.e - 1)}}) :
             a \in {a0}})

\* the integer part of |a| * k for a small k
F64FloorTimes(a0, k) ==
    Only({IF a.m = <<>> THEN 0
          ELSE IF a.e >= 0 THEN BigToNat(BigShl(BigMulSmall(a.m, k), a.e))
          ELSE BigToNat(BigShr(BigMulSmall(a.m, k), 0 - a.e)) :
             a \in {a0}})

\* math.Pow(x, n) for an integer n >= 0: the loop of pow() over the bits of n
RECURSIVE PowLoop(_, _, _)
PowLoop(a0, x0, i) ==
    Only({IF i = 0 THEN a1
          ELSE IF a1.m = <<>> \/ x1.m = <<>> THEN F64Zero
          ELSE PowLoop(IF i % 2 = 1 THEN F64Mul(a1, x1) ELSE a1, F64Mul(x1, x1), i \div 2) :
             a1 \in {a0}, x1 \in {x0}})

Pow(x, n) == Apply("Pow", <<x, n>>)

PowOp(x, n) == IF n = 0 THEN F64Of(1, 1) ELSE IF n = 1 THEN x ELSE PowLoop(F64Of(1, 1), x, n)
-----------------------------------------------------------------------------
(* Money between the store and the program *)

Hundred == F64Of(100, 1)

MoneyTab == [c \in 0..MaxCents |-> F64Of(c, 100)]

\* the float64 a DECIMAL(15,2) value of c cents scans to
Money(c) == Apply("Money", <<c>>)

MoneyOp(c) == IF c \in DOMAIN MoneyTab THEN MoneyTab[c] ELSE F64Of(c, 100)

\* the cents a DECIMAL(15,2) column keeps of a float64 parameter: the driver
\* sends the shortest decimal that reads back as the float64, the column rounds
\* it to two places, halves away from zero.  With c the whole cents of |a|, that
\* decimal is at or above c + 1/2 cents exactly when a is at or above the
\* float64 of c + 1/2 cents
ToCentsOf(a, c) ==
    Only({IF a.neg THEN 0 - mag ELSE mag :
             mag \in {IF MagCmp(a, F64Of(2 * c + 1, 200)) >= 0 THEN c + 1 ELSE c}})

ToCents(a) == Apply("ToCents", <<a>>)

ToCentsOp(a0) == Only({ToCentsOf(a, F64FloorTimes(a, 100)) : a \in {a0}})

\* math.Round(x*100) / 100
RoundCents(x) == Apply("RoundCents", <<x>>)

RoundCentsOp(x) == F64Div(F64Of(F64RoundToInt(F64Mul(x, Hundred)), 1), Hundred)

RECURSIVE SumOver(_, _)
SumOver(f, S) ==
    IF S = {} THEN 0
    ELSE LET x == CHOOSE y \in S : TRUE IN f[x] + SumOver(f, S \ {x})

-----------------------------------------------------------------------------
(* Domain logic: domain.Credit *)

\* c.InterestRate / 100 / 12
MonthlyRate(rate) == F64Div(F64Div(rate, Hundred), F64Of(12, 1))

\* domain.CalculateAnnuityPayment, on float64 principal and rate
CalculateAnnuityPayment(principal, rate, months) ==
    Apply("CalculateAnnuityPayment", <<principal, rate, months>>)

CalculateAnnuityPaymentOp(principal0, rate0, months) ==
    Only({IF F64Cmp(principal, F64Zero) <= 0 \/ F64Cmp(rate, F64Zero) < 0 \/ months <= 0
          THEN F64Zero
          ELSE Only({IF monthlyRate.m = <<>>
                     THEN F64Div(principal, F64Of(months, 1))
                     ELSE Only({RoundCents(F64Mul(principal,
                                                  F64Div(F64Mul(monthlyRate, grown),
                                                         F64Sub(grown, F64Of(1, 1))))) :
                                   grown \in {Pow(F64Add(F64Of(1, 1), monthlyRate), months)}}) :
                        monthlyRate \in {MonthlyRate(rate)}}) :
             principal \in {principal0}, rate \in {rate0}})

\* Credit.CalculatePaymentBreakdown on the credit row c, whose rate and monthly
\* payment are in memory the float64 of the stored values:
\* <<principalAmount, interestAmount>>
CalculatePaymentBreakdown(c, paymentNumber, remainingPrincipal) ==
    Apply("CalculatePaymentBreakdown", <<c, paymentNumber, remainingPrincipal>>)

CalculatePaymentBreakdownOp(c, paymentNumber, remainingPrincipal0) ==
    Only({IF paymentNumber = c.TermMonths
          THEN <<RoundCents(remainingPrincipal),
                 RoundCents(F64Sub(Money(c.MonthlyPayment), remainingPrincipal))>>
          ELSE Only({<<RoundCents(F64Sub(Money(c.MonthlyPayment), interestAmount)),
                       RoundCents(interestAmount)>> :
                        interestAmount \in {F64Mul(remainingPrincipal,
                                                   MonthlyRate(F64Of(c.InterestRate, 1)))}}) :
             remainingPrincipal \in {remainingPrincipal0}})

\* Credit.UpdateRemainingDebt on a credit row just read.  Both operands are
\* float64 of cent amounts, so the float64 difference is zero or negative
\* exactly when the cent difference is, and the column keeps the cent difference
UpdateRemainingDebt(c, paidPrincipal) ==
    IF c.RemainingDebt - paidPrincipal <= 0
    THEN [c EXCEPT !.RemainingDebt = 0, !.Status = "paid_off"]
    ELSE [c EXCEPT !.RemainingDebt = c.RemainingDebt - paidPrincipal]

-----------------------------------------------------------------------------
(* Credits: the rate, the monthly payment and the payment schedule *)

CreditAmounts == {0, 200}
Terms == {0, 1, 2, MaxTermMonths + 1}
\* what the CBR service answers: nothing usable (0: the request or the parsing
\* fails) or a key rate
KeyRates == {0, 15}

\* CBRServiceImpl.GetKeyRate on an answer it could parse: the key rate plus the
\* configured bank margin
GetKeyRate(cbrRate) == cbrRate + CbrBankMargin

\* creditService.CalculateAnnuityPayment of a request, as the column keeps it
MonthlyPaymentOf(amount, creditRate, termMonths) ==
    Apply("MonthlyPaymentOf", <<amount, creditRate, termMonths>>)

MonthlyPaymentOfOp(amount, creditRate, termMonths) ==
    ToCents(CalculateAnnuityPayment(Money(amount), F64Of(creditRate, 1), termMonths))

\* the row creditService.CreateCredit builds
CreditRow(id, accountID, amount, termMonths, creditRate, monthlyPayment, createdAt) ==
    [ID |-> id, AccountID |-> accountID, Amount |-> amount, InterestRate |-> creditRate,
     TermMonths |-> termMonths, MonthlyPayment |-> monthlyPayment,
     RemainingDebt |-> amount, Status |-> "active", CreatedAt |-> createdAt]

\* creditService.createPaymentSchedule: what the loop computes for the payments
\* month..TermMonths of the credit c when remainingPrincipal is left before them:
\* the principal and interest parts and the remaining balance of each payment
PlanRow(split, left) ==
    [PrincipalAmount |-> ToCents(split[1]), InterestAmount |-> ToCents(split[2]),
     RemainingBalance |-> ToCents(RoundCents(left))]

RECURSIVE PlanFrom(_, _, _)
PlanFrom(c, month, remainingPrincipal0) ==
    IF month > c.TermMonths THEN <<>>
    ELSE Only({Only({<<PlanRow(split, left)>> \o PlanFrom(c, month + 1, left) :
                        left \in {F64Sub(remainingPrincipal, split[1])}}) :
                  remainingPrincipal \in {remainingPrincipal0},
                  split \in {CalculatePaymentBreakdown(c, month, remainingPrincipal0)}})

\* the credits whose monthly payment and schedule are tabulated: those of the
\* requests and the credit of the initial states
PlanKeys == {<<a, r, t>> : a \in (CreditAmounts \ {0}) \cup {214},
                           r \in {FallbackRate + BankMargin} \cup
                                 {GetKeyRate(k) + BankMargin : k \in KeyRates \ {0}},
                           t \in {t \in Terms : t >= 1 /\ t <= 2}}

PlanOf(k) == Apply("PlanOf", <<k>>)

PlanOfOp(k) ==
    Only({[MonthlyPayment |-> monthly,
           rows |-> PlanFrom(CreditRow(0, 0, k[1], k[3], k[2], monthly, 0), 1, Money(k[1]))] :
             monthly \in {MonthlyPaymentOf(k[1], k[2], k[3])}})

PlanTab == [k \in PlanKeys |-> PlanOf(k)]

\* the monthly payment and the schedule of a credit of amount cents
Plan(amount, creditRate, termMonths) == Apply("Plan", <<amount, creditRate, termMonths>>)

PlanOp(amount, creditRate, termMonths) ==
    IF <<amount, creditRate, termMonths>> \in DOMAIN PlanTab
    THEN PlanTab[<<amount, creditRate, termMonths>>]
    ELSE PlanOf(<<amount, creditRate, termMonths>>)
-----------------------------------------------------------------------------
(* The charge of an overdue payment *)


Impls == {"scheduler", "credit"}

\* the penalty of one sweep for a payment of paymentAmount cents:
\* PaymentAmount * penaltyRate / 100 in the scheduler, PaymentAmount * 0.10 in
\* creditService
PenaltyAmount(impl, paymentAmount) ==
    IF impl = "scheduler"
    THEN F64Div(F64Mul(Money(paymentAmount), F64Of(PenaltyRate, 1)), Hundred)
    ELSE F64Mul(Money(paymentAmount), F64Of(1, 10))

\* penaltyAmount and totalAmount := PaymentAmount + penaltyAmount, and the
\* amount the transactions table keeps of totalAmount
ChargeOf(k) == Apply("ChargeOf", <<k>>)

ChargeOfOp(k) ==
    Only({Only({[penaltyAmount |-> penaltyAmount, totalAmount |-> totalAmount,
                 recorded |-> ToCents(totalAmount)] :
                   totalAmount \in {F64Add(Money(k[2]), penaltyAmount)}}) :
             penaltyAmount \in {PenaltyAmount(k[1], k[2])}})

\* the payment amounts whose charge is tabulated: the monthly payments of the
\* tabulated credits
ChargeKeys == {<<impl, PlanTab[k].MonthlyPayment>> : impl \in Impls, k \in PlanKeys}

ChargeTab == [k \in ChargeKeys |-> ChargeOf(k)]

Charge(impl, paymentAmount) == Apply("Charge", <<impl, paymentAmount>>)

ChargeOp(impl, paymentAmount) ==
    IF <<impl, paymentAmount>> \in DOMAIN ChargeTab THEN ChargeTab[<<impl, paymentAmount>>]
    ELSE ChargeOf(<<impl, paymentAmount>>)

\* account.Balance >= totalAmount
Sufficient(impl, paymentAmount, accountBalance) ==
    Apply("Sufficient", <<impl, paymentAmount, accountBalance>>)

SufficientOp(impl, paymentAmount, accountBalance) ==
    F64Cmp(Money(accountBalance), Charge(impl, paymentAmount).totalAmount) >= 0

\* what the column keeps of account.Balance - totalAmount
DeductedOf(k) == Apply("DeductedOf", <<k>>)

DeductedOfOp(k) == ToCents(F64Sub(Money(k[3]), Charge(k[1], k[2]).totalAmount))

\* the deductions tabulated: from the balances that cover the charge of a
\* payment of the credits the ledger starts with
DeductedKeys ==
    {k \in {<<impl, pay, b>> :
                impl \in Impls,
                pay \in {Plan(214, FallbackRate + BankMargin, 2).MonthlyPayment,
                         Plan(200, FallbackRate + BankMargin, 1).MonthlyPayment},
                b \in 0..MaxCents} : Sufficient(k[1], k[2], k[3])}

DeductedTab == [k \in DeductedKeys |-> DeductedOf(k)]

Deducted(impl, paymentAmount, accountBalance) ==
    Apply("Deducted", <<impl, paymentAmount, accountBalance>>)

DeductedOp(impl, paymentAmount, accountBalance) ==
    IF <<impl, paymentAmount, accountBalance>> \in DOMAIN DeductedTab
    THEN DeductedTab[<<impl, paymentAmount, accountBalance>>]
    ELSE DeductedOf(<<impl, paymentAmount, accountBalance>>)

\* what the column keeps of payment.PenaltyAmount += penaltyAmount
PenalisedOf(k) == Apply("PenalisedOf", <<k>>)

PenalisedOfOp(k) == ToCents(F64Add(Money(k[3]), Charge(k[1], k[2]).penaltyAmount))

\* the penalties tabulated: those of the first sweeps of a payment
PenalisedKeys ==
    {<<k[1], k[2], n * ToCents(ChargeTab[k].penaltyAmount)>> : k \in ChargeKeys, n \in 0..MaxSweeps}

PenalisedTab == [k \in PenalisedKeys |-> PenalisedOf(k)]

Penalised(impl, paymentAmount, penaltyBefore) ==
    Apply("Penalised", <<impl, paymentAmount, penaltyBefore>>)

PenalisedOp(impl, paymentAmount, penaltyBefore) ==
    IF <<impl, paymentAmount, penaltyBefore>> \in DOMAIN PenalisedTab
    THEN PenalisedTab[<<impl, paymentAmount, penaltyBefore>>]
    ELSE PenalisedOf(<<impl, paymentAmount, penaltyBefore>>)

-----------------------------------------------------------------------------
\* the operation op on the arguments arg
Apply(op, arg0) ==
    Only({CASE op = "F64Round" -> F64RoundOp(arg[1], arg[2], arg[3], arg[4])
            [] op = "F64Of" -> F64OfOp(arg[1], arg[2])
            [] op = "F64Mul" -> F64MulOp(arg[1], arg[2])
            [] op = "F64Div" -> F64DivOp(arg[1], arg[2])
            [] op = "F64Add" -> F64AddOp(arg[1], arg[2])
            [] op = "F64Sub" -> F64SubOp(arg[1], arg[2])
            [] op = "Pow" -> PowOp(arg[1], arg[2])
            [] op = "Money" -> MoneyOp(arg[1])
            [] op = "ToCents" -> ToCentsOp(arg[1])
            [] op = "RoundCents" -> RoundCentsOp(arg[1])
            [] op = "CalculateAnnuityPayment" ->
                   CalculateAnnuityPaymentOp(arg[1], arg[2], arg[3])
            [] op = "CalculatePaymentBreakdown" ->
                   CalculatePaymentBreakdownOp(arg[1], arg[2], arg[3])
            [] op = "MonthlyPaymentOf" -> MonthlyPaymentOfOp(arg[1], arg[2], arg[3])
            [] op = "PlanOf" -> PlanOfOp(arg[1])
            [] op = "Plan" -> PlanOp(arg[1], arg[2], arg[3])
            [] op = "ChargeOf" -> ChargeOfOp(arg[1])
            [] op = "Charge" -> ChargeOp(arg[1], arg[2])
            [] op = "Sufficient" -> SufficientOp(arg[1], arg[2], arg[3])
            [] op = "DeductedOf" -> DeductedOfOp(arg[1])
            [] op = "Deducted" -> DeductedOp(arg[1], arg[2], arg[3])
            [] op = "PenalisedOf" -> PenalisedOfOp(arg[1])
            [] op = "Penalised" -> PenalisedOp(arg[1], arg[2], arg[3]) :
             arg \in {arg0}})

-----------------------------------------------------------------------------
(* Store helpers *)

Exists(a) == accStatus[a] # "none"

\* the CHECK constraint chk_balance_positive of the accounts table
chk_balance_positive(b) == b >= 0

\* a row of the transactions table
Transaction(type, from, to, amount) ==
    [type |-> type, from |-> from, to |-> to, amount |-> amount]

\* transactionRepo.Create: the insert succeeds or fails
CreateTransaction(ok, t) == IF ok THEN Append(txlog, t) ELSE txlog

\* the bookkeeping of a record insert that failed
RecordFailure(failed) == IF failed THEN [hist EXCEPT !.txfail = @ + 1] ELSE hist

\* AccessControlDomain.CanAccessAccount: accountRepo.GetByID, then the owner
CanAccessAccount(userID, accountID, dbOK) ==
    IF ~dbOK \/ ~Exists(accountID) THEN "account_not_found"
    ELSE IF accOwner[accountID] # userID THEN "access_denied"
    ELSE "ok"

-----------------------------------------------------------------------------
(* Request handlers: accountService.  The amounts of the requests are whole  *)
(* cents, so the float64 sum or difference of a balance and an amount is     *)
(* stored as the exact sum or difference, and their float64 order is the     *)
(* order of the cents.                                                       *)

IdleReq == [op |-> "none", pc |-> "idle", user |-> 0, acct |-> 0, to |-> 0, amt |-> 0,
            term |-> 0, key |-> 0, rate |-> 0, rd |-> 0, credit |-> 0, month |-> 0,
            res |-> "none"]

Finish(p, r, result) == req' = [req EXCEPT ![p] = [r EXCEPT !.pc = "done", !.res = result]]

Goto(p, r, pc) == req' = [req EXCEPT ![p] = [r EXCEPT !.pc = pc]]

\* the id the accounts sequence gives the next row
NextAccountID == CHOOSE a \in AccountIds : ~Exists(a) /\ \A b \in AccountIds : b < a => Exists(b)

Currencies == {"", "USD"}

\* accountService.CreateAccount: the currency, then accountRepo.Create
CreateAccount(p, userID, currency, dbOK) ==
    /\ req[p].pc = "idle"
    /\ \E a \in AccountIds : ~Exists(a)
    /\ LET r == [IdleReq EXCEPT !.op = "open", !.user = userID]
           id == NextAccountID
       IN  IF currency # "" /\ currency # "RUB"
           THEN Finish(p, r, "unsupported_currency") /\ UNCHANGED <<accStatus, accOwner, balance>>
           ELSE IF ~dbOK
           THEN Finish(p, r, "db_error") /\ UNCHANGED <<accStatus, accOwner, balance>>
           ELSE /\ accStatus' = [accStatus EXCEPT ![id] = "active"]
                /\ accOwner' = [accOwner EXCEPT ![id] = userID]
                /\ balance' = [balance EXCEPT ![id] = 0]
                /\ Finish(p, [r EXCEPT !.acct = id], "ok")
    /\ UNCHANGED <<rowLock, txlog, credits, entries, now, sw, sched, hist>>

\* accountService.DepositMoney, steps 1-2: CanAccessAccount and the amount
DepositMoney(p, userID, accountID, amount, dbOK) ==
    /\ req[p].pc = "idle"
    /\ LET r == [IdleReq EXCEPT !.op = "deposit", !.user = userID, !.acct = accountID,
                                !.amt = amount]
           access == CanAccessAccount(userID, accountID, dbOK)
       IN  IF access # "ok" THEN Finish(p, r, access)
           ELSE IF amount <= 0 THEN Finish(p, r, "invalid_amount")
           ELSE Goto(p, r, "read")
    /\ UNCHANGED <<accStatus, accOwner, balance, rowLock, txlog, credits, entries, now, sw,
                   sched, hist>>

\* accountService.DepositMoney, steps 3-4: accountRepo.GetByID and the status
DepositRead(p, dbOK) ==
    /\ req[p].op = "deposit" /\ req[p].pc = "read"
    /\ LET r == req[p]
       IN  IF ~dbOK \/ ~Exists(r.acct) THEN Finish(p, r, "account_not_found")
           ELSE IF accStatus[r.acct] # "active" THEN Finish(p, r, "account_blocked")
           ELSE req' = [req EXCEPT ![p] = [r EXCEPT !.pc = "write", !.rd = balance[r.acct]]]
    /\ UNCHANGED <<accStatus, accOwner, balance, rowLock, txlog, credits, entries, now, sw,
                   sched, hist>>

\* accountRepo.UpdateBalance: the UPDATE waits for the row lock.  The funds
\* checks of the callers keep every value written at or above zero, so the
\* CHECK constraint of the column never refuses the write
UpdateBalance(id, newBalance) ==
    /\ rowLock[id] = Free
    /\ balance' = [balance EXCEPT ![id] = newBalance]

\* accountService.DepositMoney, step 5: UpdateBalance(balance + amount)
DepositWrite(p, dbOK) ==
    /\ req[p].op = "deposit" /\ req[p].pc = "write"
    /\ LET r == req[p]
       IN  IF ~dbOK THEN Finish(p, r, "db_error") /\ UNCHANGED balance
           ELSE UpdateBalance(r.acct, r.rd + r.amt) /\ Goto(p, r, "record")
    /\ UNCHANGED <<accStatus, accOwner, rowLock, txlog, credits, entries, now, sw, sched, hist>>

\* DepositMoney without step 6: no transaction record is written
DepositRecord_NoRecord(p, txOK) ==
    /\ req[p].op = "deposit" /\ req[p].pc = "record"
    /\ Finish(p, req[p], "ok")
    /\ UNCHANGED <<accStatus, accOwner, balance, rowLock, txlog, credits, entries, now, sw,
                   sched, hist>>

\* accountService.DepositMoney, step 6: the transaction record; its failure is
\* only logged
DepositRecord(p, txOK) ==
    /\ req[p].op = "deposit" /\ req[p].pc = "record"
    /\ txlog' = CreateTransaction(txOK, Transaction("deposit", 0, req[p].acct, req[p].amt))
    /\ hist' = RecordFailure(~txOK)
    /\ Finish(p, req[p], "ok")
    /\ UNCHANGED <<accStatus, accOwner, balance, rowLock, credits, entries, now, sw, sched>>

\* accountService.WithdrawMoney, steps 1-2: CanAccessAccount and the amount
WithdrawMoney(p, userID, accountID, amount, dbOK) ==
    /\ req[p].pc = "idle"
    /\ LET r == [IdleReq EXCEPT !.op = "withdraw", !.user = userID, !.acct = accountID,
                                !.amt = amount]
           access == CanAccessAccount(userID, accountID, dbOK)
       IN  IF access # "ok" THEN Finish(p, r, access)
           ELSE IF amount <= 0 THEN Finish(p, r, "invalid_amount")
           ELSE Goto(p, r, "read")
    /\ UNCHANGED <<accStatus, accOwner, balance, rowLock, txlog, credits, entries, now, sw,
                   sched, hist>>

\* WithdrawMoney without step 5, the funds check
WithdrawRead_NoFundsCheck(p, dbOK) ==
    /\ req[p].op = "withdraw" /\ req[p].pc = "read"
    /\ LET r == req[p]
       IN  IF ~dbOK \/ ~Exists(r.acct) THEN Finish(p, r, "account_not_found")
           ELSE IF accStatus[r.acct] # "active" THEN Finish(p, r, "account_blocked")
           ELSE req' = [req EXCEPT ![p] = [r EXCEPT !.pc = "write", !.rd = balance[r.acct]]]
    /\ UNCHANGED <<accStatus, accOwner, balance, rowLock, txlog, credits, entries, now, sw,
                   sched, hist>>

\* accountService.WithdrawMoney, steps 3-5: accountRepo.GetByID, the status, the
\* funds check
WithdrawRead(p, dbOK) ==
    /\ req[p].op = "withdraw" /\ req[p].pc = "read"
    /\ LET r == req[p]
       IN  IF ~dbOK \/ ~Exists(r.acct) THEN Finish(p, r, "account_not_found")
           ELSE IF accStatus[r.acct] # "active" THEN Finish(p, r, "account_blocked")
           ELSE IF balance[r.acct] < r.amt
                THEN Finish(p, [r EXCEPT !.rd = balance[r.acct]], "insufficient_funds")
           ELSE req' = [req EXCEPT ![p] = [r EXCEPT !.pc = "write", !.rd = balance[r.acct]]]
    /\ UNCHANGED <<accStatus, accOwner, balance, rowLock, txlog, credits, entries, now, sw,
                   sched, hist>>

\* accountService.WithdrawMoney, step 6: UpdateBalance(balance - amount)
WithdrawWrite(p, dbOK) ==
    /\ req[p].op = "withdraw" /\ req[p].pc = "write"
    /\ LET r == req[p]
       IN  IF ~dbOK THEN Finish(p, r, "db_error") /\ UNCHANGED balance
           ELSE UpdateBalance(r.acct, r.rd - r.amt) /\ Goto(p, r, "record")
    /\ UNCHANGED <<accStatus, accOwner, rowLock, txlog, credits, entries, now, sw, sched, hist>>

\* accountService.WithdrawMoney, step 7: the transaction record; its failure is
\* only logged
WithdrawRecord(p, txOK) ==
    /\ req[p].op = "withdraw" /\ req[p].pc = "record"
    /\ txlog' = CreateTransaction(txOK, Transaction("withdrawal", req[p].acct, 0, req[p].amt))
    /\ hist' = RecordFailure(~txOK)
    /\ Finish(p, req[p], "ok")
    /\ UNCHANGED <<accStatus, accOwner, balance, rowLock, credits, entries, now, sw, sched>>

-----------------------------------------------------------------------------
(* Request handler: cardService.ProcessPayment *)

CardIds == {1, 2, 3, 4}

NoCard == [AccountID |-> 0, Status |-> "none", ExpiryDate |-> 0]

\* the cards table: an active card of account 1, a blocked card, a card that
\* has expired, and an id without a row
Cards == [k \in CardIds |->
            IF k = 1 THEN [AccountID |-> 1, Status |-> "active", ExpiryDate |-> MaxTime + 1]
            ELSE IF k = 2 THEN [AccountID |-> 2, Status |-> "blocked", ExpiryDate |-> MaxTime + 1]
            ELSE IF k = 3 THEN [AccountID |-> 2, Status |-> "active", ExpiryDate |-> 0]
            ELSE NoCard]

\* cardService.ProcessPayment: the amount, cardRepo.GetByID, the status and
\* the expiry date of the card
ProcessPayment(p, cardID, amount, dbOK) ==
    /\ req[p].pc = "idle"
    /\ LET card == Cards[cardID]
           r == [IdleReq EXCEPT !.op = "payment", !.acct = card.AccountID, !.to = cardID,
                                !.amt = amount]
       IN  IF amount <= 0 THEN Finish(p, r, "invalid_amount")
           ELSE IF ~dbOK \/ card.Status = "none" THEN Finish(p, r, "card_not_found")
           ELSE IF card.Status # "active" THEN Finish(p, r, "card_blocked")
           ELSE IF now > card.ExpiryDate THEN Finish(p, r, "card_expired")
           ELSE Goto(p, r, "read")
    /\ UNCHANGED <<accStatus, accOwner, balance, rowLock, txlog, credits, entries, now, sw,
                   sched, hist>>

\* cardService.ProcessPayment: accountRepo.GetByID of the card's account and
\* the funds check; the status of the account is not looked at
PaymentRead(p, dbOK) ==
    /\ req[p].op = "payment" /\ req[p].pc = "read"
    /\ LET r == req[p]
       IN  IF ~dbOK \/ ~Exists(r.acct) THEN Finish(p, r, "account_not_found")
           ELSE IF balance[r.acct] < r.amt
                THEN Finish(p, [r EXCEPT !.rd = balance[r.acct]], "insufficient_funds")
           ELSE req' = [req EXCEPT ![p] = [r EXCEPT !.pc = "write", !.rd = balance[r.acct]]]
    /\ UNCHANGED <<accStatus, accOwner, balance, rowLock, txlog, credits, entries, now, sw,
                   sched, hist>>

\* cardService.ProcessPayment: UpdateBalance(balance - amount)
PaymentWrite(p, dbOK) ==
    /\ req[p].op = "payment" /\ req[p].pc = "write"
    /\ LET r == req[p]
       IN  IF ~dbOK THEN Finish(p, r, "db_error") /\ UNCHANGED balance
           ELSE UpdateBalance(r.acct, r.rd - r.amt) /\ Goto(p, r, "record")
    /\ UNCHANGED <<accStatus, accOwner, rowLock, txlog, credits, entries, now, sw, sched, hist>>

\* cardService.ProcessPayment: the transaction record; its failure is only logged
PaymentRecord(p, txOK) ==
    /\ req[p].op = "payment" /\ req[p].pc = "record"
    /\ txlog' = CreateTransaction(txOK, Transaction("payment", req[p].acct, 0, req[p].amt))
    /\ hist' = RecordFailure(~txOK)
    /\ Finish(p, req[p], "ok")
    /\ UNCHANGED <<accStatus, accOwner, balance, rowLock, credits, entries, now, sw, sched>>

-----------------------------------------------------------------------------
(* Request handler: accountService.TransferMoney and the transaction of      *)
(* AccountRepositoryImpl.Transfer.  The UPDATEs of the transaction stay      *)
(* private to it until the commit; the rows they change stay locked.         *)

\* accountService.TransferMoney, steps 1-3: CanAccessAccount of the source, the
\* amount, the pair; no status is looked at
TransferMoney(p, userID, fromAccountID, toAccountID, amount, dbOK) ==
    /\ req[p].pc = "idle"
    /\ LET r == [IdleReq EXCEPT !.op = "transfer", !.user = userID, !.acct = fromAccountID,
                                !.to = toAccountID, !.amt = amount]
           access == CanAccessAccount(userID, fromAccountID, dbOK)
       IN  IF access # "ok" THEN Finish(p, r, access)
           ELSE IF amount <= 0 THEN Finish(p, r, "invalid_amount")
           ELSE IF fromAccountID = toAccountID THEN Finish(p, r, "same_account")
           ELSE Goto(p, r, "lock")
    /\ UNCHANGED <<accStatus, accOwner, balance, rowLock, txlog, credits, entries, now, sw,
                   sched, hist>>

\* Transfer whose SELECT has no FOR UPDATE: it neither waits for nor takes the
\* row lock of the source
TransferLock_NoForUpdate(p, dbOK) ==
    /\ req[p].op = "transfer" /\ req[p].pc = "lock"
    /\ LET r == req[p]
       IN  IF ~dbOK \/ ~Exists(r.acct) THEN Finish(p, r, "db_error")
           ELSE IF balance[r.acct] < r.amt
                THEN Finish(p, [r EXCEPT !.rd = balance[r.acct]], "insufficient_funds")
           ELSE req' = [req EXCEPT ![p] = [r EXCEPT !.pc = "debit", !.rd = balance[r.acct]]]
    /\ UNCHANGED <<accStatus, accOwner, balance, rowLock, txlog, credits, entries, now, sw,
                   sched, hist>>

\* AccountRepositoryImpl.Transfer: Begin (no row is touched) and SELECT balance
\* ... FOR UPDATE of the source row, which waits for the row lock and takes it;
\* the funds check; an error return rolls back and gives the lock up
TransferLock(p, dbOK) ==
    /\ req[p].op = "transfer" /\ req[p].pc = "lock"
    /\ LET r == req[p]
       IN  IF ~dbOK \/ ~Exists(r.acct) THEN Finish(p, r, "db_error") /\ UNCHANGED rowLock
           ELSE /\ rowLock[r.acct] = Free
                /\ IF balance[r.acct] < r.amt
                   THEN /\ Finish(p, [r EXCEPT !.rd = balance[r.acct]], "insufficient_funds")
                        /\ UNCHANGED rowLock
                   ELSE /\ rowLock' = [rowLock EXCEPT ![r.acct] = p]
                        /\ req' = [req EXCEPT ![p] = [r EXCEPT !.pc = "debit",
                                                               !.rd = balance[r.acct]]]
    /\ UNCHANGED <<accStatus, accOwner, balance, txlog, credits, entries, now, sw, sched, hist>>

\* the locks of the transaction of p given up
Unlock(p) == [a \in AccountIds |-> IF rowLock[a] = p THEN Free ELSE rowLock[a]]

\* AccountRepositoryImpl.Transfer: UPDATE ... balance = balance - amount of the
\* source row; a failure rolls back
TransferDebit(p, dbOK) ==
    /\ req[p].op = "transfer" /\ req[p].pc = "debit"
    /\ IF ~dbOK THEN Finish(p, req[p], "db_error") /\ rowLock' = Unlock(p)
       ELSE Goto(p, req[p], "credit") /\ UNCHANGED rowLock
    /\ UNCHANGED <<accStatus, accOwner, balance, txlog, credits, entries, now, sw, sched, hist>>

\* AccountRepositoryImpl.Transfer: UPDATE ... balance = balance + amount of the
\* destination row, which waits for the row lock and takes it; for an id
\* without a row the UPDATE changes no row and is no error
TransferCredit(p, dbOK) ==
    /\ req[p].op = "transfer" /\ req[p].pc = "credit"
    /\ LET r == req[p]
       IN  IF ~dbOK THEN Finish(p, r, "db_error") /\ rowLock' = Unlock(p)
           ELSE /\ Exists(r.to) => rowLock[r.to] = Free
                /\ rowLock' = IF Exists(r.to) THEN [rowLock EXCEPT ![r.to] = p] ELSE rowLock
                /\ Goto(p, r, "commit")
    /\ UNCHANGED <<accStatus, accOwner, balance, txlog, credits, entries, now, sw, sched, hist>>

\* Transfer without its second UPDATE: the destination is never credited
TransferBalances_NoCredit(p, from, to, amount) ==
    [a \in AccountIds |-> IF a = from THEN balance[a] - amount ELSE balance[a]]

\* the balances the commit makes visible: the rows the transaction of p
\* changed and still locks
TransferBalances(p, from, to, amount) ==
    [a \in AccountIds |->
        IF a = from THEN balance[a] - amount
        ELSE IF a = to /\ rowLock[a] = p THEN balance[a] + amount
        ELSE balance[a]]

\* AccountRepositoryImpl.Transfer: Commit; a failure rolls back
TransferCommit(p, dbOK) ==
    /\ req[p].op = "transfer" /\ req[p].pc = "commit"
    /\ rowLock' = Unlock(p)
    /\ IF ~dbOK THEN Finish(p, req[p], "db_error") /\ UNCHANGED balance
       ELSE /\ balance' = TransferBalances(p, req[p].acct, req[p].to, req[p].amt)
            /\ Goto(p, req[p], "record")
    /\ UNCHANGED <<accStatus, accOwner, txlog, credits, entries, now, sw, sched, hist>>

\* accountService.TransferMoney, step 5: the transaction record; its failure
\* is only logged
TransferRecord(p, txOK) ==
    /\ req[p].op = "transfer" /\ req[p].pc = "record"
    /\ txlog' = CreateTransaction(txOK, Transaction("transfer", req[p].acct, req[p].to,
                                                    req[p].amt))
    /\ hist' = RecordFailure(~txOK)
    /\ Finish(p, req[p], "ok")
    /\ UNCHANGED <<accStatus, accOwner, balance, rowLock, credits, entries, now, sw, sched>>

\* two transfers each hold their source row and wait at their second UPDATE
\* for the row the other holds: the store detects the deadlock and fails the
\* waiting statement of one of them
TransferDeadlock(p) ==
    /\ req[p].op = "transfer" /\ req[p].pc = "credit"
    /\ \E q \in Procs \ {p} :
          /\ req[q].op = "transfer" /\ req[q].pc = "credit"
          /\ rowLock[req[p].to] = q
          /\ rowLock[req[q].to] = p
    /\ rowLock' = Unlock(p)
    /\ Finish(p, req[p], "db_error")
    /\ UNCHANGED <<accStatus, accOwner, balance, txlog, credits, entries, now, sw, sched, hist>>

-----------------------------------------------------------------------------
(* Request handler: creditService.CreateCredit *)


\* the row createPaymentSchedule inserts for payment month of the credit c; the
\* INSERT of PaymentScheduleRepositoryImpl.Create has no remaining_balance
\* column, so the stored value is the column default
ScheduleRow(c, id, month) ==
    LET planned == Plan(c.Amount, c.InterestRate, c.TermMonths).rows[month]
    IN  [ID |-> id, CreditID |-> c.ID, PaymentNumber |-> month,
         DueDate |-> c.CreatedAt + month, PaymentAmount |-> c.MonthlyPayment,
         PrincipalAmount |-> planned.PrincipalAmount,
         InterestAmount |-> planned.InterestAmount,
         RemainingBalance |-> 0, PenaltyAmount |-> 0, Status |-> "pending", PaidDate |-> 0]

\* CreateCredit without the check of the account status
CreateCredit_NoStatusCheck(p, accountID, amount, termMonths, keyRate, dbOK) ==
    /\ req[p].pc = "idle"
    /\ LET r == [IdleReq EXCEPT !.op = "credit", !.acct = accountID, !.amt = amount,
                                !.term = termMonths, !.key = keyRate]
           baseRate == IF keyRate = 0 THEN FallbackRate ELSE GetKeyRate(keyRate)
       IN  IF amount <= 0 THEN Finish(p, r, "invalid_amount")
           ELSE IF termMonths <= 0 \/ termMonths > MaxTermMonths THEN Finish(p, r, "invalid_term")
           ELSE IF accountID <= 0 THEN Finish(p, r, "invalid_account")
           ELSE IF ~dbOK \/ ~Exists(accountID) THEN Finish(p, r, "account_not_found")
           ELSE req' = [req EXCEPT ![p] = [r EXCEPT !.pc = "persist", !.rd = balance[accountID],
                                                   !.rate = baseRate + BankMargin]]
    /\ UNCHANGED <<accStatus, accOwner, balance, rowLock, txlog, credits, entries, now, sw,
                   sched, hist>>

\* CreateCredit that returns the error of GetKeyRate
CreateCredit_FailsOnRateError(p, accountID, amount, termMonths, keyRate, dbOK) ==
    /\ req[p].pc = "idle"
    /\ LET r == [IdleReq EXCEPT !.op = "credit", !.acct = accountID, !.amt = amount,
                                !.term = termMonths, !.key = keyRate]
           baseRate == IF keyRate = 0 THEN FallbackRate ELSE GetKeyRate(keyRate)
       IN  IF amount <= 0 THEN Finish(p, r, "invalid_amount")
           ELSE IF termMonths <= 0 \/ termMonths > MaxTermMonths THEN Finish(p, r, "invalid_term")
           ELSE IF accountID <= 0 THEN Finish(p, r, "invalid_account")
           ELSE IF ~dbOK \/ ~Exists(accountID) THEN Finish(p, r, "account_not_found")
           ELSE IF accStatus[accountID] # "active" THEN Finish(p, r, "account_blocked")
           ELSE IF keyRate = 0 THEN Finish(p, r, "rate_error")
           ELSE req' = [req EXCEPT ![p] = [r EXCEPT !.pc = "persist", !.rd = balance[accountID],
                                                   !.rate = baseRate + BankMargin]]
    /\ UNCHANGED <<accStatus, accOwner, balance, rowLock, txlog, credits, entries, now, sw,
                   sched, hist>>

\* creditService.CreateCredit up to the rate: Validate, accountRepo.GetByID, the
\* status, GetKeyRate with its fallback, the bank margin
CreateCredit(p, accountID, amount, termMonths, keyRate, dbOK) ==
    /\ req[p].pc = "idle"
    /\ LET r == [IdleReq EXCEPT !.op = "credit", !.acct = accountID, !.amt = amount,
                                !.term = termMonths, !.key = keyRate]
           baseRate == IF keyRate = 0 THEN FallbackRate ELSE GetKeyRate(keyRate)
       IN  IF amount <= 0 THEN Finish(p, r, "invalid_amount")
           ELSE IF termMonths <= 0 \/ termMonths > MaxTermMonths THEN Finish(p, r, "invalid_term")
           ELSE IF accountID <= 0 THEN Finish(p, r, "invalid_account")
           ELSE IF ~dbOK \/ ~Exists(accountID) THEN Finish(p, r, "account_not_found")
           ELSE IF accStatus[accountID] # "active" THEN Finish(p, r, "account_blocked")
           ELSE req' = [req EXCEPT ![p] = [r EXCEPT !.pc = "persist", !.rd = balance[accountID],
                                                   !.rate = baseRate + BankMargin]]
    /\ UNCHANGED <<accStatus, accOwner, balance, rowLock, txlog, credits, entries, now, sw,
                   sched, hist>>

\* creditService.CreateCredit: the annuity payment and creditRepo.Create
CreditPersist(p, dbOK) ==
    /\ req[p].op = "credit" /\ req[p].pc = "persist"
    /\ LET r == req[p]
           c == CreditRow(Len(credits) + 1, r.acct, r.amt, r.term, r.rate,
                          Plan(r.amt, r.rate, r.term).MonthlyPayment, now)
       IN  IF ~dbOK THEN Finish(p, r, "db_error") /\ UNCHANGED credits
           ELSE /\ credits' = Append(credits, c)
                /\ req' = [req EXCEPT ![p] = [r EXCEPT !.pc = "schedule", !.credit = c.ID,
                                                       !.month = 1]]
    /\ UNCHANGED <<accStatus, accOwner, balance, rowLock, txlog, entries, now, sw, sched, hist>>

\* a CreateCredit that returns the error of createPaymentSchedule
CreditSchedule_FailsOnError(p, dbOK) ==
    /\ req[p].op = "credit" /\ req[p].pc = "schedule"
    /\ LET r == req[p]
           c == credits[r.credit]
       IN  IF ~dbOK
           THEN Finish(p, r, "db_error") /\ UNCHANGED <<entries, hist>>
           ELSE /\ entries' = Append(entries, ScheduleRow(c, Len(entries) + 1, r.month))
                /\ hist' = [hist EXCEPT !.unsettled = Append(@, 0), !.charged = Append(@, 0)]
                /\ req' = [req EXCEPT ![p] =
                              [r EXCEPT !.month = @ + 1,
                                        !.pc = IF r.month = r.term THEN "disburse" ELSE "schedule"]]
    /\ UNCHANGED <<accStatus, accOwner, balance, rowLock, txlog, credits, now, sw, sched>>

\* creditService.createPaymentSchedule: one pass of its loop, the INSERT of one
\* payment.  The loop ends after the last payment or at the first INSERT that
\* fails, which CreateCredit only logs
CreditSchedule(p, dbOK) ==
    /\ req[p].op = "credit" /\ req[p].pc = "schedule"
    /\ LET r == req[p]
           c == credits[r.credit]
       IN  IF ~dbOK
           THEN Goto(p, r, "disburse") /\ UNCHANGED <<entries, hist>>
           ELSE /\ entries' = Append(entries, ScheduleRow(c, Len(entries) + 1, r.month))
                /\ hist' = [hist EXCEPT !.unsettled = Append(@, 0), !.charged = Append(@, 0)]
                /\ req' = [req EXCEPT ![p] =
                              [r EXCEPT !.month = @ + 1,
                                        !.pc = IF r.month = r.term THEN "disburse" ELSE "schedule"]]
    /\ UNCHANGED <<accStatus, accOwner, balance, rowLock, txlog, credits, now, sw, sched>>

\* creditService.CreateCredit: UpdateBalance(the balance read at the start +
\* amount)
CreditDisburse(p, dbOK) ==
    /\ req[p].op = "credit" /\ req[p].pc = "disburse"
    /\ LET r == req[p]
       IN  IF ~dbOK THEN Finish(p, r, "db_error") /\ UNCHANGED balance
           ELSE UpdateBalance(r.acct, r.rd + r.amt) /\ Goto(p, r, "record")
    /\ UNCHANGED <<accStatus, accOwner, rowLock, txlog, credits, entries, now, sw, sched, hist>>

\* creditService.CreateCredit: the transaction record; its failure is only logged
CreditRecord(p, txOK) ==
    /\ req[p].op = "credit" /\ req[p].pc = "record"
    /\ txlog' = CreateTransaction(txOK, Transaction("credit", 0, req[p].acct, req[p].amt))
    /\ hist' = RecordFailure(~txOK)
    /\ Finish(p, req[p], "ok")
    /\ UNCHANGED <<accStatus, accOwner, balance, rowLock, credits, entries, now, sw, sched>>

-----------------------------------------------------------------------------
(* The sweep: SchedulerServiceImpl.ProcessOverduePayments ("scheduler") and  *)
(* creditService.ProcessOverduePayments ("credit")                           *)

\* GetOverduePayments without the condition on the status of the payment
IsOverdue_AnyStatus(e) ==
    /\ e.DueDate < now
    /\ credits[e.CreditID].Status = "active"

\* the WHERE clause of PaymentScheduleRepositoryImpl.GetOverduePayments
IsOverdue(e) ==
    /\ e.DueDate < now
    /\ e.Status = "pending"
    /\ credits[e.CreditID].Status = "active"

\* the orders ORDER BY due_date ASC allows for the rows S: rows of one due date
\* come in any order
OrderByDue(S) ==
    {o \in [1..Cardinality(S) -> S] :
        /\ \A i, j \in DOMAIN o : i # j => o[i] # o[j]
        /\ \A i, j \in DOMAIN o : i < j => entries[o[i]].DueDate <= entries[o[j]].DueDate}

\* PaymentScheduleRepositoryImpl.GetOverduePayments: the lists of rows the query
\* may return
GetOverduePayments ==
    {[k \in DOMAIN o |-> entries[o[k]]] :
        o \in OrderByDue({i \in DOMAIN entries : IsOverdue(entries[i])})}

NoCredit == [ID |-> 0, AccountID |-> 0, Amount |-> 0, InterestRate |-> 0, TermMonths |-> 0,
             MonthlyPayment |-> 0, RemainingDebt |-> 0, Status |-> "none", CreatedAt |-> 0]

\* note: what became of the notification of the entry processed last
IdleSweep == [pc |-> "idle", impl |-> "none", list |-> <<>>, i |-> 0, cr |-> NoCredit,
              acc |-> 0, processed |-> 0, failed |-> 0, note |-> "none", res |-> "none"]

\* ProcessOverduePayments: the query of the due list; its failure is returned
BeginSweep(s, impl, dbOK) ==
    /\ sw[s].pc = "idle"
    /\ \E list \in GetOverduePayments :
          sw' = [sw EXCEPT ![s] =
                   IF ~dbOK THEN [IdleSweep EXCEPT !.impl = impl, !.pc = "done", !.res = "error"]
                   ELSE IF list = <<>>
                        THEN [IdleSweep EXCEPT !.impl = impl, !.pc = "done", !.res = "ok"]
                   ELSE [IdleSweep EXCEPT !.impl = impl, !.pc = "load", !.list = list, !.i = 1]]
    /\ hist' = [hist EXCEPT !.sweeps = @ + 1]

\* a direct call of ProcessOverduePayments
SweepStart(s, impl, dbOK) ==
    /\ BeginSweep(s, impl, dbOK)
    /\ UNCHANGED <<accStatus, accOwner, balance, rowLock, txlog, credits, entries, now, req,
                   sched>>

\* a loop of ProcessOverduePayments that returns the error of a failed entry
AfterEntry_ReturnsOnError(r, ok, note) ==
    IF ~ok THEN [r EXCEPT !.failed = @ + 1, !.cr = NoCredit, !.acc = 0, !.note = note,
                          !.pc = "done", !.res = "error"]
    ELSE [r EXCEPT !.processed = @ + 1, !.i = @ + 1, !.cr = NoCredit, !.acc = 0,
                   !.note = note,
                   !.pc = IF r.i + 1 > Len(r.list) THEN "done" ELSE "load",
                   !.res = IF r.i + 1 > Len(r.list) THEN "ok" ELSE "none"]

\* the loop of ProcessOverduePayments after processOverduePayment has returned:
\* count the entry and go on with the next one
AfterEntry(r, ok, note) ==
    [r EXCEPT !.processed = IF ok THEN @ + 1 ELSE @,
              !.failed = IF ok THEN @ ELSE @ + 1,
              !.i = @ + 1,
              !.cr = NoCredit, !.acc = 0, !.note = note,
              !.pc = IF r.i + 1 > Len(r.list) THEN "done" ELSE "load",
              !.res = IF r.i + 1 > Len(r.list) THEN "ok" ELSE "none"]

\* processOverduePayment of either service: creditRepo.GetByID
LoadCredit(s, dbOK) ==
    /\ sw[s].pc = "load"
    /\ LET r == sw[s]
       IN  sw' = [sw EXCEPT ![s] =
                IF ~dbOK THEN AfterEntry(r, FALSE, "none")
                ELSE [r EXCEPT !.pc = "account", !.cr = credits[r.list[r.i].CreditID]]]
    /\ UNCHANGED <<accStatus, accOwner, balance, rowLock, txlog, credits, entries, now, req,
                   sched, hist>>

\* processOverduePayment whose funds check looks at the payment without the penalty
LoadAccount_ChecksPaymentOnly(s, dbOK) ==
    /\ sw[s].pc = "account"
    /\ LET r == sw[s]
           pay == r.list[r.i]
       IN  sw' = [sw EXCEPT ![s] =
                IF ~dbOK \/ ~Exists(r.cr.AccountID) THEN AfterEntry(r, FALSE, "none")
                ELSE [r EXCEPT !.acc = balance[r.cr.AccountID],
                               !.pc = IF balance[r.cr.AccountID] >= pay.PaymentAmount
                                      THEN "debit" ELSE "penalty"]]
    /\ UNCHANGED <<accStatus, accOwner, balance, rowLock, txlog, credits, entries, now, req,
                   sched, hist>>

\* processOverduePayment of either service: accountRepo.GetByID, the penalty,
\* the total and the funds check
LoadAccount(s, dbOK) ==
    /\ sw[s].pc = "account"
    /\ LET r == sw[s]
           pay == r.list[r.i]
       IN  sw' = [sw EXCEPT ![s] =
                IF ~dbOK \/ ~Exists(r.cr.AccountID) THEN AfterEntry(r, FALSE, "none")
                ELSE [r EXCEPT !.acc = balance[r.cr.AccountID],
                               !.pc = IF Sufficient(r.impl, pay.PaymentAmount,
                                                    balance[r.cr.AccountID])
                                      THEN "debit" ELSE "penalty"]]
    /\ UNCHANGED <<accStatus, accOwner, balance, rowLock, txlog, credits, entries, now, req,
                   sched, hist>>

\* the bookkeeping of a balance write made to settle entry id
Charged(id) == [hist EXCEPT !.charged[id] = @ + 1]

\* processPaymentDeduction of the scheduler and processOverduePayment of
\* creditService: UpdateBalance(account.Balance - totalAmount)
Deduct(s, dbOK) ==
    /\ sw[s].pc = "debit"
    /\ LET r == sw[s]
           pay == r.list[r.i]
       IN  IF ~dbOK
           THEN /\ sw' = [sw EXCEPT ![s] = AfterEntry(r, FALSE, "none")]
                /\ UNCHANGED <<balance, hist>>
           ELSE /\ UpdateBalance(r.cr.AccountID, Deducted(r.impl, pay.PaymentAmount, r.acc))
                /\ hist' = Charged(pay.ID)
                /\ sw' = [sw EXCEPT ![s] = [r EXCEPT !.pc = "paid"]]
    /\ UNCHANGED <<accStatus, accOwner, rowLock, txlog, credits, entries, now, req, sched>>

\* processPaymentDeduction of the scheduler and processOverduePayment of
\* creditService: the payment row of the list, marked paid with its penalty,
\* written over the stored row by paymentRepo.Update
MarkPaid(s, dbOK) ==
    /\ sw[s].pc = "paid"
    /\ LET r == sw[s]
           pay == r.list[r.i]
       IN  IF ~dbOK
           THEN /\ sw' = [sw EXCEPT ![s] = AfterEntry(r, FALSE, "none")]
                /\ UNCHANGED entries
           ELSE /\ entries' = [entries EXCEPT ![pay.ID] =
                                 [pay EXCEPT !.Status = "paid", !.PaidDate = now,
                                             !.PenaltyAmount =
                                                 Penalised(r.impl, pay.PaymentAmount, @)]]
                /\ sw' = [sw EXCEPT ![s] =
                            [r EXCEPT !.pc = IF r.impl = "credit" THEN "debt" ELSE "record"]]
    /\ UNCHANGED <<accStatus, accOwner, balance, rowLock, txlog, credits, now, req, sched, hist>>

\* creditService.processOverduePayment: UpdateRemainingDebt on the credit read
\* at the start, written over the stored row by creditRepo.Update
UpdateDebt(s, dbOK) ==
    /\ sw[s].pc = "debt"
    /\ LET r == sw[s]
           pay == r.list[r.i]
       IN  IF ~dbOK
           THEN /\ sw' = [sw EXCEPT ![s] = AfterEntry(r, FALSE, "none")]
                /\ UNCHANGED credits
           ELSE /\ credits' = [credits EXCEPT ![r.cr.ID] =
                                 UpdateRemainingDebt(r.cr, pay.PrincipalAmount)]
                /\ sw' = [sw EXCEPT ![s] = [r EXCEPT !.pc = "record"]]
    /\ UNCHANGED <<accStatus, accOwner, balance, rowLock, txlog, entries, now, req, sched, hist>>

\* the credit_payment record of the settlement of the current entry
PaymentRecordOf(r) ==
    Transaction("credit_payment", r.cr.AccountID, 0,
                Charge(r.impl, r.list[r.i].PaymentAmount).recorded)

\* the transaction record of a settlement: processPaymentDeduction of the
\* scheduler returns the error of a failed insert, creditService only logs it
\* and has then processed the entry
RecordPayment(s, txOK) ==
    /\ sw[s].pc = "record"
    /\ LET r == sw[s]
       IN  /\ txlog' = CreateTransaction(txOK, PaymentRecordOf(r))
           /\ hist' = RecordFailure(~txOK)
           /\ sw' = [sw EXCEPT ![s] =
                       IF r.impl = "credit" THEN AfterEntry(r, TRUE, "none")
                       ELSE IF ~txOK THEN AfterEntry(r, FALSE, "none")
                       ELSE [r EXCEPT !.pc = "lookup"]]
    /\ UNCHANGED <<accStatus, accOwner, balance, rowLock, credits, entries, now, req, sched>>

\* increasePenalty of the scheduler, and the branch of creditService that also
\* sets the status overdue_with_penalty: the payment row of the list with its
\* penalty, written over the stored row by paymentRepo.Update
IncreasePenalty(s, dbOK) ==
    /\ sw[s].pc = "penalty"
    /\ LET r == sw[s]
           pay == r.list[r.i]
           status == IF r.impl = "credit" THEN "overdue_with_penalty" ELSE pay.Status
       IN  IF ~dbOK
           THEN /\ sw' = [sw EXCEPT ![s] = AfterEntry(r, FALSE, "none")]
                /\ UNCHANGED <<entries, hist>>
           ELSE /\ entries' = [entries EXCEPT ![pay.ID] =
                                 [pay EXCEPT !.Status = status,
                                             !.PenaltyAmount =
                                                 Penalised(r.impl, pay.PaymentAmount, @)]]
                /\ hist' = [hist EXCEPT !.unsettled[pay.ID] = @ + 1]
                /\ sw' = [sw EXCEPT ![s] =
                            IF r.impl = "credit" THEN AfterEntry(r, TRUE, "none")
                            ELSE [r EXCEPT !.pc = "lookup"]]
    /\ UNCHANGED <<accStatus, accOwner, balance, rowLock, txlog, credits, now, req, sched>>

\* a processOverduePayment that returns the error of sendOverdueNotification
Notified_PropagatesFailure(r, ok) ==
    IF ok THEN AfterEntry(r, TRUE, "sent") ELSE AfterEntry(r, FALSE, "failed")

\* processOverduePayment after sendOverdueNotification has returned: its error
\* is only logged
Notified(r, ok) == AfterEntry(r, TRUE, IF ok THEN "sent" ELSE "failed")

\* sendOverdueNotification: userRepo.GetByID of the credit's user
NotifyLookup(s, ok) ==
    /\ sw[s].pc = "lookup"
    /\ sw' = [sw EXCEPT ![s] = IF ok THEN [sw[s] EXCEPT !.pc = "mail"]
                               ELSE Notified(sw[s], FALSE)]
    /\ UNCHANGED <<accStatus, accOwner, balance, rowLock, txlog, credits, entries, now, req,
                   sched, hist>>

\* sendOverdueNotification: emailService.SendOverdueNotification
NotifySend(s, ok) ==
    /\ sw[s].pc = "mail"
    /\ sw' = [sw EXCEPT ![s] = Notified(sw[s], ok)]
    /\ UNCHANGED <<accStatus, accOwner, balance, rowLock, txlog, credits, entries, now, req,
                   sched, hist>>

\* the goroutine of a finished sweep ends; its slot can run the next sweep
SweepReturn(s) ==
    /\ sw[s].pc = "done"
    /\ sw' = [sw EXCEPT ![s] = IdleSweep]
    /\ UNCHANGED <<accStatus, accOwner, balance, rowLock, txlog, credits, entries, now, req,
                   sched, hist>>

\* time passes
AdvanceTime ==
    /\ now < MaxTime
    /\ now' = now + 1
    /\ UNCHANGED <<accStatus, accOwner, balance, rowLock, txlog, credits, entries, req, sw,
                   sched, hist>>

-----------------------------------------------------------------------------
(* The scheduler: SchedulerServiceImpl.Start and Stop, and main's shutdown *)

\* the scheduler after NewSchedulerService: no ticker, stopChan open, no goroutine.
\* chan: whether the build gives the ticker a buffered channel (before Go 1.23)
\* or a channel that hands out no tick after Stop (from Go 1.23 on)
IdleSched == [ticker |-> "nil", tick |-> FALSE, stopChan |-> "open", loop |-> "none",
              first |-> "none", stop |-> "none", ctx |-> "live", chan |-> "buffered",
              ticks |-> 0]

\* Start: the ticker, the goroutine of the immediate sweep and the loop goroutine
Start ==
    /\ sched.loop = "none" /\ sched.stop # "panicked"
    /\ sched' = [sched EXCEPT !.ticker = "running", !.first = "spawned", !.loop = "select"]
    /\ UNCHANGED <<accStatus, accOwner, balance, rowLock, txlog, credits, entries, now, req, sw,
                   hist>>

\* the first goroutine of Start gets to run: it calls ProcessOverduePayments
FirstSweep(dbOK) ==
    /\ sched.first = "spawned" /\ sched.stop # "panicked"
    /\ sched' = [sched EXCEPT !.first = "sweeping"]
    /\ BeginSweep("s1", "scheduler", dbOK)
    /\ UNCHANGED <<accStatus, accOwner, balance, rowLock, txlog, credits, entries, now, req>>

\* the first goroutine ends with its sweep
FirstExit ==
    /\ sched.first = "sweeping" /\ sw["s1"].pc = "done"
    /\ sched' = [sched EXCEPT !.first = "exited"]
    /\ sw' = [sw EXCEPT !["s1"] = IdleSweep]
    /\ UNCHANGED <<accStatus, accOwner, balance, rowLock, txlog, credits, entries, now, req,
                   hist>>

\* the ticker fires: the tick waits in ticker.C; a tick that finds one waiting is dropped
Tick ==
    /\ sched.ticker = "running" /\ sched.stop # "panicked"
    /\ sched.ticks < MaxTicks
    /\ sched' = [sched EXCEPT !.tick = TRUE, !.ticks = @ + 1]
    /\ UNCHANGED <<accStatus, accOwner, balance, rowLock, txlog, credits, entries, now, req, sw,
                   hist>>

\* the select of the loop goroutine takes case <-s.ticker.C: the tick is
\* received; select chooses among the cases that are ready
LoopTick ==
    /\ sched.loop = "select" /\ sched.tick /\ sched.stop # "panicked"
    /\ sched' = [sched EXCEPT !.tick = FALSE, !.loop = "ticked"]
    /\ UNCHANGED <<accStatus, accOwner, balance, rowLock, txlog, credits, entries, now, req, sw,
                   hist>>

\* the loop goroutine, having received the tick, calls ProcessOverduePayments
LoopSweep(dbOK) ==
    /\ sched.loop = "ticked" /\ sched.stop # "panicked"
    /\ sched' = [sched EXCEPT !.loop = "sweeping"]
    /\ BeginSweep("s2", "scheduler", dbOK)
    /\ UNCHANGED <<accStatus, accOwner, balance, rowLock, txlog, credits, entries, now, req>>

\* ProcessOverduePayments returns to the loop, which selects again
LoopAgain ==
    /\ sched.loop = "sweeping" /\ sw["s2"].pc = "done"
    /\ sched' = [sched EXCEPT !.loop = "select"]
    /\ sw' = [sw EXCEPT !["s2"] = IdleSweep]
    /\ UNCHANGED <<accStatus, accOwner, balance, rowLock, txlog, credits, entries, now, req,
                   hist>>

\* the select of the loop goroutine takes case <-s.stopChan or case <-ctx.Done()
LoopExit ==
    /\ sched.loop = "select" /\ sched.stop # "panicked"
    /\ sched.stopChan = "closed" \/ sched.ctx = "done"
    /\ sched' = [sched EXCEPT !.loop = "exited"]
    /\ UNCHANGED <<accStatus, accOwner, balance, rowLock, txlog, credits, entries, now, req, sw,
                   hist>>

\* Stop: ticker.Stop() when there is a ticker, then close(stopChan); closing a
\* closed channel panics
Stop ==
    /\ sched.stop # "panicked"
    /\ sched' = IF sched.stopChan = "closed"
                THEN [sched EXCEPT !.stop = "panicked"]
                ELSE [sched EXCEPT !.stop = "returned", !.stopChan = "closed",
                                   !.ticker = IF @ = "nil" THEN "nil" ELSE "stopped",
                                   !.tick = IF sched.chan = "buffered" THEN @ ELSE FALSE]
    /\ UNCHANGED <<accStatus, accOwner, balance, rowLock, txlog, credits, entries, now, req, sw,
                   hist>>

\* main's shutdown goroutine, after scheduler.Stop() and server.Shutdown: cancel()
Cancel ==
    /\ sched.stop = "returned" /\ sched.ctx = "live"
    /\ sched' = [sched EXCEPT !.ctx = "done"]
    /\ UNCHANGED <<accStatus, accOwner, balance, rowLock, txlog, credits, entries, now, req, sw,
                   hist>>

-----------------------------------------------------------------------------
(* Initial states *)

\* the credit every initial state holds: issued at time 0 by CreateCredit at
\* the fallback rate, two payments
Credit1 == CreditRow(1, 1, 214, 2, FallbackRate + BankMargin,
                     Plan(214, FallbackRate + BankMargin, 2).MonthlyPayment, 0)

\* a second credit of account 1 issued on the same day: 2.00 over one month,
\* whose only payment is due on the day of the first payment of Credit1
Credit2 == CreditRow(2, 1, 200, 1, FallbackRate + BankMargin,
                     Plan(200, FallbackRate + BankMargin, 1).MonthlyPayment, 0)

\* accounts 1 and 2 are active and belong to users 1 and 2, account 3 is
\* blocked, id 4 has no row yet
InitCommon ==
    /\ accStatus = [a \in AccountIds |->
                       IF a = 4 THEN "none" ELSE IF a = 3 THEN "blocked" ELSE "active"]
    /\ accOwner = [a \in AccountIds |-> IF a = 4 THEN 0 ELSE IF a = 2 THEN 2 ELSE 1]
    /\ rowLock = [a \in AccountIds |-> Free]
    /\ txlog = <<>>
    /\ req = [p \in Procs |-> IdleReq]
    /\ sw = [s \in Sweepers |-> IdleSweep]

\* the credits and schedule entries at the start: Credit1, with Credit2 or without
InitCredits(second) ==
    /\ credits = IF second THEN <<Credit1, Credit2>> ELSE <<Credit1>>
    /\ entries = IF second
                 THEN <<ScheduleRow(Credit1, 1, 1), ScheduleRow(Credit1, 2, 2),
                        ScheduleRow(Credit2, 3, 1)>>
                 ELSE <<ScheduleRow(Credit1, 1, 1), ScheduleRow(Credit1, 2, 2)>>

\* bookkeeping: the balances at the start, the sweeps started, per schedule
\* entry the sweeps that left it unsettled and added their penalty and the
\* balance writes made to settle it, and the transaction records whose insert failed
InitHist(bal, second) ==
    hist = [init |-> bal, sweeps |-> 0,
            unsettled |-> IF second THEN <<0, 0, 0>> ELSE <<0, 0>>,
            charged |-> IF second THEN <<0, 0, 0>> ELSE <<0, 0>>,
            txfail |-> 0]

\* requests and one sweep; the first payment of the credit is overdue and
\* account 1 holds its payment, the penalty and a cent
LedgerBalance == [a \in AccountIds |-> IF a = 1 THEN 122 ELSE IF a = 2 THEN 1 ELSE 0]

Init ==
    /\ InitCommon
    /\ InitCredits(FALSE)
    /\ sched = IdleSched
    /\ balance = LedgerBalance
    /\ InitHist(LedgerBalance, FALSE)
    /\ now = 2

\* the operations a behaviour has started: requests and sweeps
Started == Cardinality({p \in Procs : req[p].pc # "idle"}) + hist.sweeps

Next ==
    \/ Started < MaxOps /\ \E p \in Procs, u \in Users, c \in Currencies, dbOK \in BOOLEAN :
          CreateAccount(p, u, c, dbOK)
    \/ Started < MaxOps /\ \E p \in Procs, u \in Users, a \in AccountIds, m \in Amounts,
          dbOK \in BOOLEAN : DepositMoney(p, u, a, m, dbOK)
    \/ \E p \in Procs, dbOK \in BOOLEAN : DepositRead(p, dbOK)
    \/ \E p \in Procs, dbOK \in BOOLEAN : DepositWrite(p, dbOK)
    \/ \E p \in Procs, txOK \in BOOLEAN : DepositRecord(p, txOK)
    \/ Started < MaxOps /\ \E p \in Procs, u \in Users, a \in AccountIds, m \in Amounts,
          dbOK \in BOOLEAN : WithdrawMoney(p, u, a, m, dbOK)
    \/ \E p \in Procs, dbOK \in BOOLEAN : WithdrawRead(p, dbOK)
    \/ \E p \in Procs, dbOK \in BOOLEAN : WithdrawWrite(p, dbOK)
    \/ \E p \in Procs, txOK \in BOOLEAN : WithdrawRecord(p, txOK)
    \/ Started < MaxOps /\ \E p \in Procs, k \in CardIds, m \in Amounts, dbOK \in BOOLEAN :
          ProcessPayment(p, k, m, dbOK)
    \/ \E p \in Procs, dbOK \in BOOLEAN : PaymentRead(p, dbOK)
    \/ \E p \in Procs, dbOK \in BOOLEAN : PaymentWrite(p, dbOK)
    \/ \E p \in Procs, txOK \in BOOLEAN : PaymentRecord(p, txOK)
    \/ Started < MaxOps /\ \E p \in Procs, u \in Users, a \in AccountIds, b \in AccountIds,
          m \in Amounts, dbOK \in BOOLEAN : TransferMoney(p, u, a, b, m, dbOK)
    \/ \E p \in Procs, dbOK \in BOOLEAN : TransferLock(p, dbOK)
    \/ \E p \in Procs, dbOK \in BOOLEAN : TransferDebit(p, dbOK)
    \/ \E p \in Procs, dbOK \in BOOLEAN : TransferCredit(p, dbOK)
    \/ \E p \in Procs, dbOK \in BOOLEAN : TransferCommit(p, dbOK)
    \/ \E p \in Procs, txOK \in BOOLEAN : TransferRecord(p, txOK)
    \/ \E p \in Procs : TransferDeadlock(p)
    \/ Started < MaxOps /\ \E p \in Procs, a \in AccountIds, m \in CreditAmounts, t \in Terms,
          k \in KeyRates, dbOK \in BOOLEAN : CreateCredit(p, a, m, t, k, dbOK)
    \/ \E p \in Procs, dbOK \in BOOLEAN : CreditPersist(p, dbOK)
    \/ \E p \in Procs, dbOK \in BOOLEAN : CreditSchedule(p, dbOK)
    \/ \E p \in Procs, dbOK \in BOOLEAN : CreditDisburse(p, dbOK)
    \/ \E p \in Procs, txOK \in BOOLEAN : CreditRecord(p, txOK)
    \/ Started < MaxOps /\ \E dbOK \in BOOLEAN : SweepStart("s1", "scheduler", dbOK)
    \/ \E dbOK \in BOOLEAN : LoadCredit("s1", dbOK)
    \/ \E dbOK \in BOOLEAN : LoadAccount("s1", dbOK)
    \/ \E dbOK \in BOOLEAN : Deduct("s1", dbOK)
    \/ \E dbOK \in BOOLEAN : MarkPaid("s1", dbOK)
    \/ \E txOK \in BOOLEAN : RecordPayment("s1", txOK)
    \/ \E dbOK \in BOOLEAN : IncreasePenalty("s1", dbOK)
    \/ \E ok \in BOOLEAN : NotifyLookup("s1", ok)
    \/ \E ok \in BOOLEAN : NotifySend("s1", ok)

Spec == Init /\ [][Next]_vars

-----------------------------------------------------------------------------
(* Two concurrent transfers among two active accounts, a blocked one and an  *)
(* id without a row                                                          *)

TransferBalance == [a \in AccountIds |-> IF a = 1 THEN 2 ELSE IF a = 4 THEN 0 ELSE 1]

InitTransfer ==
    /\ InitCommon
    /\ InitCredits(FALSE)
    /\ sched = IdleSched
    /\ balance = TransferBalance
    /\ InitHist(TransferBalance, FALSE)
    /\ now = 0

NextTransfer ==
    \/ \E p \in Procs, u \in Users, a \in AccountIds, b \in AccountIds, m \in Amounts,
          dbOK \in BOOLEAN : TransferMoney(p, u, a, b, m, dbOK)
    \/ \E p \in Procs, dbOK \in BOOLEAN : TransferLock(p, dbOK)
    \/ \E p \in Procs, dbOK \in BOOLEAN : TransferDebit(p, dbOK)
    \/ \E p \in Procs, dbOK \in BOOLEAN : TransferCredit(p, dbOK)
    \/ \E p \in Procs, dbOK \in BOOLEAN : TransferCommit(p, dbOK)
    \/ \E p \in Procs, txOK \in BOOLEAN : TransferRecord(p, txOK)
    \/ \E p \in Procs : TransferDeadlock(p)

SpecTransfer == InitTransfer /\ [][NextTransfer]_vars

-----------------------------------------------------------------------------
(* Sweeps one after the other, of either implementation, while time passes *)

SweepBalances == {0, 121, 122, 243, 244}

\* the start of a sweep specification, Credit2 included or not
InitLedger(second) ==
    /\ InitCommon
    /\ InitCredits(second)
    /\ sched = IdleSched
    /\ \E b \in SweepBalances :
          /\ balance = [a \in AccountIds |-> IF a = 1 THEN b ELSE 0]
          /\ InitHist([a \in AccountIds |-> IF a = 1 THEN b ELSE 0], second)
    /\ now = 3

InitSweep == \E second \in BOOLEAN : InitLedger(second)

NextSweep ==
    \/ \E impl \in Impls, dbOK \in BOOLEAN :
          hist.sweeps < MaxSweeps /\ SweepStart("s1", impl, dbOK)
    \/ \E dbOK \in BOOLEAN : LoadCredit("s1", dbOK)
    \/ \E dbOK \in BOOLEAN : LoadAccount("s1", dbOK)
    \/ \E dbOK \in BOOLEAN : Deduct("s1", dbOK)
    \/ \E dbOK \in BOOLEAN : MarkPaid("s1", dbOK)
    \/ \E dbOK \in BOOLEAN : UpdateDebt("s1", dbOK)
    \/ \E txOK \in BOOLEAN : RecordPayment("s1", txOK)
    \/ \E dbOK \in BOOLEAN : IncreasePenalty("s1", dbOK)
    \/ \E ok \in BOOLEAN : NotifyLookup("s1", ok)
    \/ \E ok \in BOOLEAN : NotifySend("s1", ok)
    \/ SweepReturn("s1")
    \/ AdvanceTime

SpecSweep == InitSweep /\ [][NextSweep]_vars

-----------------------------------------------------------------------------
(* Two sweeps that overlap: ProcessOverduePayments called while another call *)
(* of it, of either implementation, is still going through its list          *)

NextOverlap ==
    \/ \E s \in Sweepers, impl \in Impls, dbOK \in BOOLEAN :
          hist.sweeps < MaxSweeps /\ SweepStart(s, impl, dbOK)
    \/ \E s \in Sweepers, dbOK \in BOOLEAN : LoadCredit(s, dbOK)
    \/ \E s \in Sweepers, dbOK \in BOOLEAN : LoadAccount(s, dbOK)
    \/ \E s \in Sweepers, dbOK \in BOOLEAN : Deduct(s, dbOK)
    \/ \E s \in Sweepers, dbOK \in BOOLEAN : MarkPaid(s, dbOK)
    \/ \E s \in Sweepers, dbOK \in BOOLEAN : UpdateDebt(s, dbOK)
    \/ \E s \in Sweepers, txOK \in BOOLEAN : RecordPayment(s, txOK)
    \/ \E s \in Sweepers, dbOK \in BOOLEAN : IncreasePenalty(s, dbOK)
    \/ \E s \in Sweepers, ok \in BOOLEAN : NotifyLookup(s, ok)
    \/ \E s \in Sweepers, ok \in BOOLEAN : NotifySend(s, ok)

InitOverlap == InitLedger(FALSE)

SpecOverlap == InitOverlap /\ [][NextOverlap]_vars

-----------------------------------------------------------------------------
(* The scheduler started, ticking and stopped *)

SchedBalance == [a \in AccountIds |-> IF a = 1 THEN 244 ELSE 0]

InitSched ==
    /\ InitCommon
    /\ InitCredits(FALSE)
    /\ \E c \in {"buffered", "synchronous"} : sched = [IdleSched EXCEPT !.chan = c]
    /\ balance = SchedBalance
    /\ InitHist(SchedBalance, FALSE)
    /\ now = 2

NextSched ==
    \/ Start
    \/ \E dbOK \in BOOLEAN : FirstSweep(dbOK)
    \/ FirstExit
    \/ Tick
    \/ LoopTick
    \/ \E dbOK \in BOOLEAN : LoopSweep(dbOK)
    \/ LoopAgain
    \/ LoopExit
    \/ Stop
    \/ Cancel
    \/ \E s \in Sweepers, dbOK \in BOOLEAN : LoadCredit(s, dbOK)
    \/ \E s \in Sweepers, dbOK \in BOOLEAN : LoadAccount(s, dbOK)
    \/ \E s \in Sweepers, dbOK \in BOOLEAN : Deduct(s, dbOK)
    \/ \E s \in Sweepers, dbOK \in BOOLEAN : MarkPaid(s, dbOK)
    \/ \E s \in Sweepers, txOK \in BOOLEAN : RecordPayment(s, txOK)
    \/ \E s \in Sweepers, dbOK \in BOOLEAN : IncreasePenalty(s, dbOK)
    \/ \E s \in Sweepers, ok \in BOOLEAN : NotifyLookup(s, ok)
    \/ \E s \in Sweepers, ok \in BOOLEAN : NotifySend(s, ok)

SpecSched == InitSched /\ [][NextSched]_vars

-----------------------------------------------------------------------------
(* Sequential reference: the operations run one after the other *)

\* the request r run alone on the balances bal: whether it can end there as it
\* has ended, and the balances it leaves
RequestAlone(bal, r) ==
    IF r.res # "ok"
    THEN [ok |-> r.res = "insufficient_funds" => bal[r.acct] < r.amt, bal |-> bal]
    ELSE IF r.op \in {"deposit", "credit"}
         THEN [ok |-> TRUE, bal |-> [bal EXCEPT ![r.acct] = @ + r.amt]]
    ELSE IF r.op \in {"withdraw", "payment"}
         THEN [ok |-> bal[r.acct] >= r.amt, bal |-> [bal EXCEPT ![r.acct] = @ - r.amt]]
    ELSE IF r.op = "transfer"
         THEN [ok |-> bal[r.acct] >= r.amt,
               bal |-> [a \in AccountIds |->
                           IF a = r.acct THEN bal[a] - r.amt
                           ELSE IF a = r.to /\ Exists(a) THEN bal[a] + r.amt
                           ELSE bal[a]]]
    ELSE [ok |-> TRUE, bal |-> bal]

\* the sweep s, whose due list has at most one entry, run alone on the balances
\* bal: whether it can end there as it has ended, and the balances it leaves
SettlementAlone(bal, s) ==
    IF sw[s].list = <<>> THEN [ok |-> TRUE, bal |-> bal]
    ELSE LET pay == sw[s].list[1]
             account == credits[pay.CreditID].AccountID
             paid == hist.charged[pay.ID] > 0
         IN  [ok |-> paid <=> Sufficient(sw[s].impl, pay.PaymentAmount, bal[account]),
              bal |-> IF paid
                      THEN [bal EXCEPT ![account] =
                               Deducted(sw[s].impl, pay.PaymentAmount, bal[account])]
                      ELSE bal]

\* the operations that have run: the requests and the sweeps
Units == {p \in Procs : req[p].op # "none"} \cup {s \in Sweepers : sw[s].impl # "none"}

Orders(U) == {o \in [1..Cardinality(U) -> U] : \A i, j \in DOMAIN o : i # j => o[i] # o[j]}

RECURSIVE InOrder(_, _, _)
InOrder(bal, o, k) ==
    IF k = 0 THEN [ok |-> TRUE, bal |-> bal]
    ELSE LET before == InOrder(bal, o, k - 1)
             step == IF o[k] \in Procs THEN RequestAlone(before.bal, req[o[k]])
                     ELSE SettlementAlone(before.bal, o[k])
         IN  [ok |-> before.ok /\ step.ok, bal |-> step.bal]

\* the balance of account a equals what some sequential order of the operations leaves
Serializable(a) ==
    \E o \in Orders(Units) :
        LET left == InOrder(hist.init, o, Cardinality(Units))
        IN  left.ok /\ balance[a] = left.bal[a]

Quiet ==
    /\ \A p \in Procs : req[p].pc \in {"idle", "done"}
    /\ \A s \in Sweepers : sw[s].pc \in {"idle", "done"}

\* no call of the store has failed
NoStoreFailure ==
    /\ \A p \in Procs : req[p].res # "db_error"
    /\ \A s \in Sweepers : sw[s].failed = 0 /\ sw[s].res # "error"

\* request p is the only operation that has run
Alone(p) ==
    /\ \A q \in Procs \ {p} : req[q].pc = "idle"
    /\ hist.sweeps = 0

\* the entry a sweep is working on
Current(s) == sw[s].list[sw[s].i]

\* the sweep s is settling or penalising an entry
Working(s) == sw[s].pc \in {"load", "account", "debit", "paid", "debt", "record", "penalty",
                            "lookup", "mail"}

\* scheduled payment + penalty, the penalty being PenaltyRate percent of the
\* payment: whether the balance b covers it, and whether the amount t, or the
\* penalty n, equals it to the cent (amounts are in cents, so the exact value is
\* compared in hundredths of a cent)
Covers(b, paymentAmount) == 100 * b >= paymentAmount * (100 + PenaltyRate)

ToTheCent(d) == -50 <= d /\ d <= 50

IsTotal(t, paymentAmount) == ToTheCent(100 * t - paymentAmount * (100 + PenaltyRate))

IsPenalty(n, paymentAmount) == ToTheCent(100 * n - paymentAmount * PenaltyRate)

-----------------------------------------------------------------------------
(* Properties *)

\* C1: a successful Transfer(X->Y, A) between two distinct existing accounts,
\* with no other operation, leaves X reduced by exactly A, Y increased by
\* exactly A and X + Y unchanged
C1_TransferMovesAmount ==
    \A p \in Procs :
        (req[p].op = "transfer" /\ req[p].res = "ok" /\ Exists(req[p].to) /\ Alone(p)) =>
            LET x == req[p].acct
                y == req[p].to
                amt == req[p].amt
            IN  /\ x # y /\ amt > 0 /\ hist.init[x] >= amt
                /\ balance[x] = hist.init[x] - amt
                /\ balance[y] = hist.init[y] + amt
                /\ balance[x] + balance[y] = hist.init[x] + hist.init[y]

C1_Witness ==
    \E p \in Procs :
        /\ req[p].op = "transfer" /\ req[p].res = "ok" /\ Alone(p)
        /\ req[p].acct = 1 /\ req[p].to = 2 /\ req[p].amt = 2
        /\ balance[1] = 120 /\ balance[2] = 3

\* C2: a Transfer that has ended, with success or with any failure, has applied
\* both the debit and the credit or neither, and has not changed the sum of
\* all balances
C2_TransferAllOrNothing ==
    \A p \in Procs :
        (req[p].op = "transfer" /\ req[p].pc = "done" /\ Alone(p)) =>
            LET x == req[p].acct
                y == req[p].to
                amt == req[p].amt
            IN  /\ \/ balance = hist.init
                   \/ balance[x] = hist.init[x] - amt /\ balance[y] = hist.init[y] + amt
                /\ SumOver(balance, AccountIds) = SumOver(hist.init, AccountIds)

\* C3: after any interleaving of Deposit, Withdraw, the disbursement of
\* CreateCredit and a sweep settlement, every balance equals what the operations
\* leave when run one after the other in some order
C3_NoLostUpdate ==
    (/\ Quiet /\ NoStoreFailure
     /\ \A p \in Procs : req[p].op \in {"none", "deposit", "withdraw", "credit"}) =>
        \A a \in AccountIds : Serializable(a)

\* C4: two concurrent Transfers on disjoint pairs both succeed; two concurrent
\* Transfers that share one account leave every balance equal to what the two
\* leave when run one after the other in some order
C4_ConcurrentTransfers ==
    LET r1 == req["r1"]
        r2 == req["r2"]
        shared == {r1.acct, r1.to} \cap {r2.acct, r2.to}
    IN  (/\ r1.pc = "done" /\ r2.pc = "done"
         /\ r1.op = "transfer" /\ r2.op = "transfer"
         /\ r1.res \in {"ok", "insufficient_funds"} /\ r2.res \in {"ok", "insufficient_funds"}
         /\ Cardinality(shared) <= 1) =>
            /\ \A a \in AccountIds : Serializable(a)
            /\ (shared = {} /\ hist.init[r1.acct] >= r1.amt /\ hist.init[r2.acct] >= r2.amt) =>
                   /\ r1.res = "ok" /\ r2.res = "ok"
                   /\ balance[r1.acct] = hist.init[r1.acct] - r1.amt
                   /\ Exists(r1.to) => balance[r1.to] = hist.init[r1.to] + r1.amt
                   /\ balance[r2.acct] = hist.init[r2.acct] - r2.amt
                   /\ Exists(r2.to) => balance[r2.to] = hist.init[r2.to] + r2.amt

\* two transfers out of account 1, which holds 2: one of 2 and one of 1, both done,
\* the second one refused
C4_Witness ==
    /\ req["r1"].op = "transfer" /\ req["r2"].op = "transfer"
    /\ req["r1"].acct = 1 /\ req["r2"].acct = 1
    /\ req["r1"].to = 2 /\ req["r2"].to = 3
    /\ req["r1"].amt = 2 /\ req["r2"].amt = 1
    /\ req["r1"].res = "ok" /\ req["r2"].res = "insufficient_funds"
    /\ balance[1] = 0 /\ balance[2] = 3 /\ balance[3] = 1

\* C5: a Withdraw or a Transfer whose amount exceeds the balance of its source
\* at its funds check fails with insufficient funds and changes no balance and
\* no transaction record
C5_InsufficientFunds ==
    [][\A p \in Procs :
          LET r == req'[p]
          IN  (/\ req[p] # r
               /\ \/ req[p].pc = "read" /\ r.op = "withdraw"
                        /\ r.res \notin {"account_not_found", "account_blocked"}
                  \/ req[p].pc = "lock" /\ r.op = "transfer" /\ r.res # "db_error"
               /\ r.amt > balance[r.acct]) =>
                  /\ r.pc = "done" /\ r.res = "insufficient_funds"
                  /\ balance' = balance /\ txlog' = txlog]_vars

C5_Witness ==
    /\ req["r1"].op = "withdraw" /\ req["r1"].res = "insufficient_funds"
    /\ req["r1"].acct = 2 /\ req["r1"].amt = 2
    /\ req["r2"].op = "transfer" /\ req["r2"].res = "insufficient_funds"
    /\ req["r2"].acct = 2 /\ req["r2"].amt = 2
    /\ balance = hist.init /\ txlog = <<>>

\* C6: under every interleaving of Deposit, Withdraw, Transfer, CreateCredit and
\* sweep settlements every account balance is >= 0
C6_BalanceNonNegative == \A a \in AccountIds : chk_balance_positive(balance[a])

\* a withdrawal has taken account 1 to 120 and the settlement has left it alone
\* as it is short of the payment and its penalty by a cent
C6_Witness ==
    /\ balance[1] = 120
    /\ sw["s1"].pc = "done" /\ sw["s1"].processed = 1 /\ entries[1].Status = "pending"
    /\ \E p \in Procs : req[p].op = "withdraw" /\ req[p].acct = 1 /\ req[p].res = "ok"

\* C7: a sweep never charges an entry that is already marked paid: no step of a
\* sweep changes a paid entry, and a step that debits an account or writes a
\* transaction record settles an entry that was not paid when the sweep listed
\* it (nor, for the debit, since)
C7_SweepIdempotentOnPaid ==
    [][/\ \A e \in DOMAIN entries : entries[e].Status = "paid" => entries'[e] = entries[e]
       /\ \A s \in Sweepers :
             (sw[s].pc \in {"debit", "record"} /\ sw'[s] # sw[s]
                  /\ (balance' # balance \/ txlog' # txlog)) =>
                 /\ Current(s).Status # "paid"
                 /\ sw[s].pc = "debit" => entries[Current(s).ID].Status # "paid"]_vars

\* the first payment was settled by the first sweep, the second sweep has run at
\* the same time of the store and has left the balance and the record alone
C7_Witness ==
    /\ hist.sweeps = 2 /\ sw["s1"].pc = "done" /\ now = 3
    /\ hist.init[1] = 122 /\ balance[1] = 1
    /\ entries[1].Status = "paid" /\ entries[1].PenaltyAmount = 11 /\ entries[1].PaidDate = 3
    /\ hist.unsettled[2] = 2
    /\ Len(txlog) = 1

\* C8: an entry that sweeps have left unsettled stays eligible (pending), and
\* after k such sweeps its accumulated penalty is k times the penalty of one
\* sweep, penaltyRate x scheduled amount to the cent
C8_PenaltyAdditive ==
    \A e \in DOMAIN entries :
        (hist.unsettled[e] > 0 /\ entries[e].Status # "paid") =>
            /\ entries[e].Status = "pending"
            /\ \E n \in 0..entries[e].PenaltyAmount :
                  /\ IsPenalty(n, entries[e].PaymentAmount)
                  /\ entries[e].PenaltyAmount = hist.unsettled[e] * n

\* C9: a sweep goes through its whole due list whatever entry fails: while it
\* runs it has counted every entry before the current one, and it ends without
\* error with processed + failed = the number of due entries
C9_SweepCompletesPass ==
    \A s \in Sweepers :
        /\ Working(s) =>
              /\ sw[s].i \in 1..Len(sw[s].list)
              /\ sw[s].processed + sw[s].failed = sw[s].i - 1
        /\ (sw[s].pc = "done" /\ sw[s].list # <<>>) =>
              /\ sw[s].res = "ok"
              /\ sw[s].processed + sw[s].failed = Len(sw[s].list)

\* the first of two due entries failed and the second was processed after it
C9_Witness ==
    /\ sw["s1"].pc = "done" /\ sw["s1"].res = "ok" /\ Len(sw["s1"].list) = 2
    /\ sw["s1"].failed = 1 /\ sw["s1"].processed = 1
    /\ hist.sweeps = 1
    /\ entries[1].Status = "pending" /\ entries[1].PenaltyAmount = 0
    /\ entries[2].PenaltyAmount > 0

\* C10: once Stop has returned the loop of the scheduler starts no sweep for a
\* tick, whenever it received that tick, and Stop leaves the sweeps in progress
\* as they are
C10_StopHaltsTicks ==
    [][/\ sched.stop = "returned" => ~(sched.loop # "sweeping" /\ sched'.loop = "sweeping")
       /\ sched'.stop # sched.stop => sw' = sw]_vars

\* C11: Stop can be called any number of times, in any state of the scheduler:
\* every call returns, none crashes the process
C11_StopIdempotent == sched.stop # "panicked"

\* C12: a CreateCredit call with amount <= 0, with a term outside 1..360, or for
\* an account that is missing or not active returns the corresponding error at
\* once (account not found also when the account could not be read) and leaves
\* credits, schedule entries, transactions and balances as they were
C12_CreateCreditRejects ==
    [][\A p \in Procs :
          (req[p].pc = "idle" /\ req'[p].op = "credit") =>
              LET r == req'[p]
                  expected == IF r.amt <= 0 THEN {"invalid_amount"}
                              ELSE IF r.term <= 0 \/ r.term > 360 THEN {"invalid_term"}
                              ELSE IF accStatus[r.acct] = "none" THEN {"account_not_found"}
                              ELSE IF accStatus[r.acct] # "active"
                                   THEN {"account_blocked", "account_not_found"}
                              ELSE {}
              IN  expected # {} =>
                      /\ r.pc = "done" /\ r.res \in expected
                      /\ credits' = credits /\ entries' = entries
                      /\ txlog' = txlog /\ balance' = balance]_vars

\* a credit of 200 over 2 months was asked for the blocked account and refused
C12_Witness ==
    /\ req["r1"].op = "credit" /\ req["r1"].pc = "done"
    /\ req["r1"].acct = 3 /\ req["r1"].amt = 200 /\ req["r1"].term = 2
    /\ req["r1"].res = "account_blocked"
    /\ Len(credits) = 1 /\ Len(entries) = 2 /\ balance[3] = 0

\* C13: a failure of the rate provider never fails CreateCredit: a valid request
\* for an active account that could be read goes on at the fallback rate plus
\* the margin, the credit it stores bears that rate, and its disbursement
\* credits the account
C13_RateFallback ==
    [][\A p \in Procs :
          LET r == req'[p] IN
          (r.op = "credit" /\ r.key = 0 /\ r # req[p]) =>
              /\ (req[p].pc = "idle" /\ r.amt > 0 /\ r.term \in 1..360
                    /\ accStatus[r.acct] = "active" /\ r.res # "account_not_found") =>
                     r.pc = "persist" /\ r.rate = FallbackRate + BankMargin
              /\ r.res \in {"none", "ok", "db_error", "invalid_amount", "invalid_term",
                            "account_not_found", "account_blocked"}
              /\ (req[p].pc = "persist" /\ r.pc = "schedule") =>
                     /\ credits'[r.credit].InterestRate = FallbackRate + BankMargin
                     /\ credits'[r.credit].AccountID = r.acct
              /\ (req[p].pc = "disburse" /\ r.pc = "record") =>
                     balance'[r.acct] = r.rd + r.amt
              /\ (req[p].pc = "record") => r.res = "ok"]_vars

\* the provider failed and the credit was issued at the fallback rate plus the
\* margin, with its two schedule entries, and disbursed
C13_Witness ==
    /\ req["r1"].op = "credit" /\ req["r1"].key = 0 /\ req["r1"].res = "ok"
    /\ req["r1"].credit = 2 /\ credits[2].InterestRate = FallbackRate + BankMargin
    /\ Len(entries) = 4 /\ entries[4].CreditID = 2
    /\ balance[req["r1"].acct] = req["r1"].rd + 200
    /\ txlog # <<>> /\ txlog[Len(txlog)].type = "credit"

\* C14: a Deposit, Withdraw or Transfer of a positive amount that names an
\* account without a row or with a status other than active (for Transfer, as
\* source or as destination) never succeeds and never changes a balance
C14_InactiveAccountsRefused ==
    [][\A p \in Procs :
          LET r == req'[p] IN
          (/\ r # req[p] /\ r.op \in {"deposit", "withdraw", "transfer"} /\ r.amt > 0
           /\ \/ accStatus[r.acct] # "active"
              \/ r.op = "transfer" /\ accStatus[r.to] # "active") =>
              /\ balance' = balance
              /\ r.res # "ok"]_vars

\* C15: the schedule CreateCredit has stored in full for a credit has principal
\* portions that sum to the credit's amount, and the remaining balance stored
\* for each entry is the amount minus the principal portions up to that entry
\* (so 0 for the last one)
C15_ScheduleSumsToPrincipal ==
    \A p \in Procs :
        LET c == req[p].credit
            rows == {e \in DOMAIN entries : entries[e].CreditID = c}
            principalUpTo(k) ==
                SumOver([e \in rows |-> IF entries[e].PaymentNumber <= k
                                        THEN entries[e].PrincipalAmount ELSE 0],
                        rows)
        IN  (c # 0 /\ Cardinality(rows) = credits[c].TermMonths) =>
                /\ principalUpTo(credits[c].TermMonths) = credits[c].Amount
                /\ \A e \in rows :
                      entries[e].RemainingBalance =
                          credits[c].Amount - principalUpTo(entries[e].PaymentNumber)

\* C16: no step increases the remaining debt of a credit or makes it negative,
\* and a credit is paid_off exactly when its remaining debt is zero
C16_DebtNeverIncreases ==
    [][\A c \in DOMAIN credits :
          /\ credits'[c].RemainingDebt <= credits[c].RemainingDebt
          /\ credits'[c].RemainingDebt >= 0
          /\ credits'[c].Status = "paid_off" <=> credits'[c].RemainingDebt = 0]_vars

\* C17: a step appends at most one transaction record, and only the record
\* step of an operation that has written its balance does; the record step of
\* a Deposit, Withdraw, Transfer or credit disbursement, and that of a sweep
\* settlement, appends exactly one record of its type and amount unless the
\* insert of the record failed; an operation that ends in failure without
\* having written a balance appends none
C17_OneRecordPerMutation ==
    [][LET appended == Len(txlog') - Len(txlog)
           failed == hist'.txfail - hist.txfail
           last == txlog'[Len(txlog')]
           typeOf == [deposit |-> "deposit", withdraw |-> "withdrawal",
                      transfer |-> "transfer", credit |-> "credit", payment |-> "payment"]
           records(p) == req[p].pc = "record" /\ req'[p] # req[p]
           settles(s) == sw[s].pc = "record" /\ sw'[s] # sw[s]
       IN  /\ appended \in {0, 1}
           /\ SubSeq(txlog', 1, Len(txlog)) = txlog
           /\ appended = 1 => (\E p \in Procs : records(p)) \/ (\E s \in Sweepers : settles(s))
           /\ \A p \in Procs :
                 /\ (balance' # balance /\ req'[p] # req[p]) => req'[p].pc = "record"
                 /\ records(p) =>
                       /\ req'[p].res = "ok"
                       /\ appended + failed = 1
                       /\ appended = 1 => last.type = typeOf[req[p].op] /\ last.amount = req[p].amt
                 /\ (req'[p].pc = "done" /\ req[p].pc # "done" /\ req'[p].res # "ok") =>
                       appended = 0 /\ balance' = balance /\ req[p].pc # "record"
           /\ \A s \in Sweepers :
                 /\ settles(s) =>
                       /\ appended + failed = 1
                       /\ appended = 1 =>
                             /\ last.type = "credit_payment"
                             /\ IsTotal(last.amount, Current(s).PaymentAmount)
                 /\ (sw'[s].failed = sw[s].failed + 1 /\ balance' = balance) => appended = 0]_vars

\* a deposit and the settlement of the first payment have succeeded with their
\* records written: two records
C17_Witness ==
    /\ req["r1"].op = "deposit" /\ req["r1"].res = "ok" /\ req["r1"].acct = 2
    /\ sw["s1"].processed = 1 /\ entries[1].Status = "paid"
    /\ hist.txfail = 0
    /\ Len(txlog) = 2
    /\ {txlog[k].type : k \in 1..2} = {"deposit", "credit_payment"}
    /\ balance[1] = 1 /\ balance[2] = hist.init[2] + req["r1"].amt

\* C18: the settlement of an entry is all or nothing: a settlement that fails
\* at any of its steps leaves the balance of the account, the entry and the
\* credit as they were when the settlement read them
C18_SettlementAtomic ==
    [][\A s \in Sweepers :
          (/\ sw[s].pc \in {"debit", "paid", "debt", "record", "penalty"}
           /\ sw'[s].failed = sw[s].failed + 1) =>
              /\ balance'[sw[s].cr.AccountID] = sw[s].acc
              /\ entries'[Current(s).ID] = Current(s)
              /\ credits'[sw[s].cr.ID] = sw[s].cr]_vars

\* C19: a settlement that succeeds and has marked its entry paid has subtracted
\* the entry's principal portion from the stored remaining debt of its credit,
\* and the credit is paid_off when that debt has reached zero
C19_SettlementReducesDebt ==
    [][\A s \in Sweepers :
          (/\ Working(s) /\ sw'[s].processed = sw[s].processed + 1
           /\ entries'[Current(s).ID].Status = "paid") =>
              LET c == sw[s].cr.ID
                  owed == sw[s].cr.RemainingDebt - Current(s).PrincipalAmount
              IN  /\ credits'[c].RemainingDebt = IF owed <= 0 THEN 0 ELSE owed
                  /\ credits'[c].RemainingDebt = 0 => credits'[c].Status = "paid_off"]_vars

\* C20: a sweep that reads an account holding at least the scheduled payment
\* plus the penalty (payment x penalty rate / 100) goes on to settle the entry:
\* it debits exactly that total, marks the entry paid at the current time with
\* the penalty added to the entry's penalty, and appends one credit_payment
\* record of the total (none when the insert of the record failed)
C20_SettlementEffects ==
    [][\A s \in Sweepers :
          LET pay == Current(s)
              account == sw[s].cr.AccountID
              moved == sw'[s] # sw[s] /\ sw'[s].failed = sw[s].failed
          IN  /\ (sw[s].pc = "account" /\ moved /\ Covers(balance[account], pay.PaymentAmount)) =>
                    sw'[s].pc = "debit"
              /\ (sw[s].pc = "debit" /\ moved) =>
                    IsTotal(sw[s].acc - balance'[account], pay.PaymentAmount)
              /\ (sw[s].pc = "paid" /\ moved) =>
                    /\ entries'[pay.ID].Status = "paid" /\ entries'[pay.ID].PaidDate = now
                    /\ IsPenalty(entries'[pay.ID].PenaltyAmount - pay.PenaltyAmount,
                                 pay.PaymentAmount)
              /\ (sw[s].pc = "record" /\ moved) =>
                    \/ /\ Len(txlog') = Len(txlog) + 1
                       /\ txlog'[Len(txlog')].type = "credit_payment"
                       /\ txlog'[Len(txlog')].from = account
                       /\ IsTotal(txlog'[Len(txlog')].amount, pay.PaymentAmount)
                    \/ txlog' = txlog /\ hist'.txfail = hist.txfail + 1]_vars

\* C21: a sweep that finds the account short of the scheduled payment plus the
\* penalty, and whose entry update succeeds, marks the entry overdue and adds
\* the penalty to its penalty, and changes no balance, no credit and no
\* transaction record
C21_UnsettledMarksOverdue ==
    [][\A s \in Sweepers :
          LET pay == Current(s)
          IN  (/\ sw[s].pc = "penalty" /\ sw'[s] # sw[s] /\ sw'[s].failed = sw[s].failed
               /\ ~Covers(sw[s].acc, pay.PaymentAmount)) =>
                  /\ entries'[pay.ID].Status = "overdue"
                  /\ IsPenalty(entries'[pay.ID].PenaltyAmount - pay.PenaltyAmount,
                               pay.PaymentAmount)
                  /\ balance' = balance /\ credits' = credits /\ txlog' = txlog]_vars

\* C22: two concurrent transfers never come to wait for each other: no state
\* has two transfers that each hold the row lock of their source and need the
\* row of their destination, which the other holds
C22_NoTransferDeadlock ==
    \A p \in Procs : \A q \in Procs \ {p} :
        ~ /\ req[p].op = "transfer" /\ req[p].pc = "credit"
          /\ req[q].op = "transfer" /\ req[q].pc = "credit"
          /\ rowLock[req[p].to] = q
          /\ rowLock[req[q].to] = p

\* C23: when the insert of the transaction record fails after a balance was
\* written, the operation is still reported as successful: the request returns
\* ok, and a sweep does not count the entry as failed
C23_RecordFailureTolerated ==
    [][hist'.txfail = hist.txfail + 1 =>
          /\ balance' = balance
          /\ \/ \E p \in Procs : req'[p].res = "ok" /\ req[p].res # "ok"
             \/ \E s \in Sweepers : sw'[s] # sw[s] /\ sw'[s].failed = sw[s].failed]_vars

\* C24: the scheduler's sweep attempts one notification for every entry whose
\* settlement step completed (paid, or penalised), and counts the entry as
\* processed whether the notification was sent or failed; the notification
\* changes no balance, entry, credit or transaction record
C24_NotificationFailureIgnored ==
    [][\A s \in Sweepers :
          LET completes == \/ sw[s].pc = "record" /\ txlog' # txlog
                           \/ sw[s].pc = "penalty" /\ entries' # entries
          IN  /\ (sw[s].impl = "scheduler" /\ sw'[s] # sw[s] /\ completes) =>
                    sw'[s].pc = "lookup" /\ sw'[s].failed = sw[s].failed
              /\ (sw[s].pc \in {"lookup", "mail"} /\ sw'[s] # sw[s]) =>
                    /\ balance' = balance /\ entries' = entries
                    /\ credits' = credits /\ txlog' = txlog
                    /\ sw'[s].failed = sw[s].failed
                    /\ sw'[s].pc # "mail" =>
                          /\ sw'[s].processed = sw[s].processed + 1
                          /\ sw'[s].note \in {"sent", "failed"}]_vars

\* the scheduler's sweep has settled both payments from a balance of 244 and
\* the notification of the second one failed: both are counted processed
C24_Witness ==
    /\ sw["s1"].impl = "scheduler" /\ sw["s1"].pc = "done" /\ sw["s1"].note = "failed"
    /\ sw["s1"].processed = 2 /\ sw["s1"].failed = 0
    /\ hist.init[1] = 244 /\ balance[1] = 2
    /\ entries[1].Status = "paid" /\ entries[2].Status = "paid"
    /\ Len(txlog) = 2

\* C25: the schedule of a credit is persisted as one batch: once the request
\* that creates a credit is past its schedule step, the credit has either no
\* schedule entries or exactly termMonths entries numbered 1..termMonths, never
\* a part of them; a credit is persisted with a remaining debt no larger than
\* its amount
C25_ScheduleAllOrNothing ==
    \A c \in 1..Len(credits) :
        LET rows == {e \in DOMAIN entries : entries[e].CreditID = c}
            scheduling == \E p \in Procs : req[p].credit = c /\ req[p].pc = "schedule"
        IN  /\ credits[c].RemainingDebt <= credits[c].Amount
            /\ \/ scheduling
               \/ rows = {}
               \/ /\ Cardinality(rows) = credits[c].TermMonths
                  /\ {entries[e].PaymentNumber : e \in rows} = 1..credits[c].TermMonths

\* C26: a failure of the schedule generation after the credit is persisted
\* does not fail CreateCredit: whatever part of the schedule was stored, the
\* request goes on to the disbursement with the credit active, credits the
\* amount to the account and ends successfully
C26_ScheduleFailureTolerated ==
    [][\A p \in Procs :
          (req[p].op = "credit" /\ req'[p] # req[p]) =>
              /\ (req[p].pc = "persist" /\ Len(credits') = Len(credits) + 1) =>
                    /\ req'[p].pc = "schedule" /\ req'[p].res = "none"
                    /\ credits'[req'[p].credit].Status = "active"
              /\ req[p].pc = "schedule" =>
                    /\ req'[p].pc \in {"schedule", "disburse"} /\ req'[p].res = "none"
                    /\ credits' = credits
              /\ (req[p].pc = "disburse" /\ req'[p].res = "none") =>
                    /\ req'[p].pc = "record"
                    /\ balance'[req[p].acct] = req[p].rd + req[p].amt
                    /\ credits'[req[p].credit].Status = "active"
              /\ req[p].pc = "record" => req'[p].res = "ok"]_vars

\* a credit of 200 over 2 months was created although only one of its two
\* schedule entries was stored: the request succeeded, the credit is active and
\* the account holds the amount on top of its balance
C26_Witness ==
    /\ req["r1"].op = "credit" /\ req["r1"].res = "ok" /\ req["r1"].term = 2
    /\ req["r1"].acct = 1 /\ req["r1"].credit = 2
    /\ Cardinality({e \in DOMAIN entries : entries[e].CreditID = 2}) = 1
    /\ credits[2].Status = "active" /\ credits[2].RemainingDebt = 200
    /\ balance[1] = hist.init[1] + 200

\* C27: the annual rate stored on a credit created by CreateCredit is the base
\* rate (the key rate the provider obtained, or the fallback rate when the
\* provider failed) plus the bank margin, added once
C27_RateIsBasePlusMargin ==
    \A p \in Procs :
        (req[p].op = "credit" /\ req[p].credit # 0) =>
            credits[req[p].credit].InterestRate =
                (IF req[p].key = 0 THEN FallbackRate ELSE req[p].key) + BankMargin

\* C28: whatever the interleaving of the immediate sweep and the sweeps the
\* ticker starts, no schedule entry is charged more than once: while no store
\* operation of a sweep has failed, the account was debited at most once for
\* each entry and there are no more credit_payment records than paid entries
C28_EntryChargedOnce ==
    NoStoreFailure =>
        /\ \A e \in DOMAIN entries : hist.charged[e] <= 1
        /\ Cardinality({k \in DOMAIN txlog : txlog[k].type = "credit_payment"})
              <= Cardinality({e \in DOMAIN entries : entries[e].Status = "paid"})

\* C29: before any sweep, and when the first sweep has gone through its list
\* without a failure, the remaining debt stored on each credit is its principal
\* minus the principal portions of its paid entries, and zero when that
\* difference is not positive
C29_DebtMatchesPaidEntries ==
    (\/ hist.sweeps = 0
     \/ /\ hist.sweeps = 1
        /\ \E s \in Sweepers : sw[s].pc = "done" /\ sw[s].failed = 0 /\ sw[s].res = "ok") =>
        \A c \in DOMAIN credits :
            LET paid == {e \in DOMAIN entries :
                            entries[e].CreditID = c /\ entries[e].Status = "paid"}
                owed == credits[c].Amount
                           - SumOver([e \in DOMAIN entries |-> entries[e].PrincipalAmount], paid)
            IN  credits[c].RemainingDebt = IF owed <= 0 THEN 0 ELSE owed

\* C30: a CreateCredit that returned an error has left no Credit row and no
\* schedule entry of its request persisted; conversely the request of every
\* persisted active credit has ended with the disbursement made (the only way
\* the request ends successfully)
C30_FailedCreateLeavesNothing ==
    \A p \in Procs :
        (req[p].op = "credit" /\ req[p].pc = "done") =>
            /\ req[p].res # "ok" =>
                  /\ req[p].credit \notin DOMAIN credits
                  /\ \A e \in DOMAIN entries : entries[e].CreditID # req[p].credit
            /\ (req[p].credit \in DOMAIN credits
                   /\ credits[req[p].credit].Status = "active") => req[p].res = "ok"

====
